---- MODULE Spec2Model ----
(***************************************************************************)
(* The Synchronizer program (src/src/processor.rs, src/src/state.rs,       *)
(* src/src/instruction.rs) as a state machine.  One step is one invocation *)
(* of a handler: it reads the Synchronizer record and the token ledger,    *)
(* runs the handler's checks in the order of the code, issues the token    *)
(* ledger instructions and, last, packs the record.                        *)
(*                                                                         *)
(* Quantities are fixed-point integers.  The code works with u64 and the   *)
(* scale 10^9; the model keeps the same operations over a word of WordBits *)
(* bits and the scale Scale.  The code computes the monetary amounts in    *)
(* f64 and casts the result to u64; the model computes the product exactly *)
(* and truncates it, which is what the cast does to the exact product.     *)
(***************************************************************************)
EXTENDS Integers, Sequences, FiniteSets, TLC

\* ---------------------------------------------------------------- constants
MAX_ORACLES == 3
MAX_SIGNERS == 3
DEFAULT_DECIMALS == 9

\* ------------------------------------------------------------------- bounds
\* fixed-point scale of the model (10^DEFAULT_DECIMALS in the code)
Scale == 10
\* width of the model's unsigned word (64 in the code)
WordBits == 8
\* number of invocations in one behaviour
MaxCalls == 3

U64Modulus == 2 ^ WordBits
U64Max == U64Modulus - 1

\* --------------------------------------------------------------- identities
\* Pubkey::default(), the value of an unused slot of the oracles array
ZeroKey == "zero"
\* the key of the Synchronizer account: record holder, owner of the protocol
\* collateral account and mint authority of the synthetic asset
SyncKey == "sync"
UserKey == "user"
OtherKey == "other"

\* token accounts of the ledger: the mint each one holds and its owner
TokenAccount ==
  [ sync_usdc  |-> [mint |-> "usdc", owner |-> SyncKey],
    user_usdc  |-> [mint |-> "usdc", owner |-> UserKey],
    other_usdc |-> [mint |-> "usdc", owner |-> OtherKey],
    sync_usdt  |-> [mint |-> "usdt", owner |-> SyncKey],
    user_usdt  |-> [mint |-> "usdt", owner |-> UserKey],
    user_fiat  |-> [mint |-> "fiat", owner |-> UserKey],
    other_fiat |-> [mint |-> "fiat", owner |-> OtherKey],
    user_fiatx |-> [mint |-> "fiatx", owner |-> UserKey] ]

TokenAccounts == DOMAIN TokenAccount

\* synthetic-asset mints: decimal scale and mint authority ("none" = COption::None)
Mint ==
  [ fiat  |-> [decimals |-> 9, mint_authority |-> SyncKey],
    fiat6 |-> [decimals |-> 6, mint_authority |-> SyncKey],
    fiatx |-> [decimals |-> 9, mint_authority |-> OtherKey],
    fiatn |-> [decimals |-> 9, mint_authority |-> "none"] ]

\* ---------------------------------------------------------------- variables
VARIABLES
  synchronizer,     \* the persisted SynchronizerData record
  balance,          \* token ledger: amount of every token account
  call,             \* the invocation handled by the last step
  result,           \* what that invocation returned
  locals,           \* price, collateral_amount, fee_amount it computed (and logged)
  ledger,           \* the ledger instructions it issued, in order
  changed,          \* whether it changed the record or a balance
  retired,          \* identities once in the oracles array and no longer in it
  ncalls            \* number of invocations so far

vars == <<synchronizer, balance, call, result, locals, ledger, changed, retired, ncalls>>

\* ------------------------------------------------------------ u64 arithmetic
\* a + b, a - b on u64: out of range the build either traps (panic) or wraps
InRange(x) == x >= 0 /\ x <= U64Max

Wrap(x) == x % U64Modulus

\* f64 -> u64 cast: saturating
SaturatingCast(x) == IF x > U64Max THEN U64Max ELSE IF x < 0 THEN 0 ELSE x

\* spl_token::ui_amount_to_amount(amount_to_ui_amount(amount) * amount_to_ui_amount(price))
CollateralAmount(amount, price) ==
  SaturatingCast((amount * price) \div Scale)

\* ui_amount_to_amount(collateral_amount_ui * amount_to_ui_amount(fee))
FeeAmount(amount, price, fee) ==
  SaturatingCast((amount * price * fee) \div (Scale * Scale))

\* ui_amount_to_amount(collateral_amount_ui * multiplier as f64)
CapDelta(amount, price, multiplier) ==
  SaturatingCast((amount * price * multiplier) \div Scale)

\* ------------------------------------------------------------- token ledger
\* spl_token transfer: the authority must own the source, both accounts hold
\* the same mint, the source holds the amount, the destination must not overflow
TransferOk(bal, from, to, authority, amount) ==
  /\ TokenAccount[from].owner = authority
  /\ TokenAccount[from].mint = TokenAccount[to].mint
  /\ bal[from] >= amount
  /\ (from = to \/ bal[to] + amount <= U64Max)

Transfer(bal, from, to, amount) ==
  IF from = to THEN bal
  ELSE [bal EXCEPT ![from] = @ - amount, ![to] = @ + amount]

\* spl_token mint_to: the account holds the mint, the authority is the mint's
MintToOk(bal, mint, to, authority, amount) ==
  /\ TokenAccount[to].mint = mint
  /\ Mint[mint].mint_authority = authority
  /\ bal[to] + amount <= U64Max

MintTo(bal, to, amount) == [bal EXCEPT ![to] = @ + amount]

\* spl_token burn: the account holds the mint, the authority owns it, it holds the amount
BurnOk(bal, from, mint, authority, amount) ==
  /\ TokenAccount[from].mint = mint
  /\ TokenAccount[from].owner = authority
  /\ bal[from] >= amount

Burn(bal, from, amount) == [bal EXCEPT ![from] = @ - amount]

\* one issued ledger instruction, as recorded in the order of issue
Issued(op, from, to, amount, ok) ==
  [op |-> op, from |-> from, to |-> to, amount |-> amount, ok |-> ok]


\* ------------------------------------------------------- handler outcomes
NoLocals == [price |-> 0, collateral_amount |-> 0, fee_amount |-> 0]

\* what one invocation leaves behind: the returned value, the record, the
\* ledger balances, the amounts it computed and the instructions it issued
Out(res, rec, bal, loc, led) ==
  [result |-> res, rec |-> rec, bal |-> bal, locals |-> loc, ledger |-> led]

\* `return Err(e.into())` before anything was issued: nothing is written
Reject(rec, bal, e) == Out(e, rec, bal, NoLocals, <<>>)

\* SynchronizerData::pack(synchronizer, &mut account.data) as the last statement
Packed(rec, synchronizer_local, bal, loc, led) ==
  Out("Ok", synchronizer_local, bal, loc, led)

\* synchronizer.oracles.contains(&key)
Contains(oracles, key) == \E i \in 1..MAX_ORACLES : oracles[i] = key

\* ------------------------------------------------------------ quorum engine
\* processor.rs:67  `oracles_infos.iter().next().unwrap()`: a fresh iterator
\* on every pass of the loop, so the oracle examined is always the first one
LoopOracle(oracles_infos, i) == oracles_infos[1]

\* processor.rs:68
KnownSigner(rec, oracle) == Contains(rec.oracles, oracle.key) /\ oracle.is_signer

BuyPick_Less(price, candidate) == IF candidate < price THEN candidate ELSE price

\* processor.rs:72-74
BuyPick(price, candidate) == IF candidate > price THEN candidate ELSE price

\* processor.rs:214-216
SellPick(price, candidate) == IF candidate < price THEN candidate ELSE price

RECURSIVE BuyPriceLoop(_, _, _, _, _)
\* processor.rs:66-75, pass i (0-based) of the loop with the running price
BuyPriceLoop(rec, oracles_infos, prices, i, price) ==
  IF i >= rec.minimum_required_signature THEN [err |-> "", price |-> price]
  ELSE IF ~KnownSigner(rec, LoopOracle(oracles_infos, i))
       THEN [err |-> "BadOracle", price |-> price]
       ELSE BuyPriceLoop(rec, oracles_infos, prices, i + 1, BuyPick(price, prices[i + 1]))

RECURSIVE SellPriceLoop(_, _, _, _, _)
\* processor.rs:208-217
SellPriceLoop(rec, oracles_infos, prices, i, price) ==
  IF i >= rec.minimum_required_signature THEN [err |-> "", price |-> price]
  ELSE IF ~KnownSigner(rec, LoopOracle(oracles_infos, i))
       THEN [err |-> "BadOracle", price |-> price]
       ELSE SellPriceLoop(rec, oracles_infos, prices, i + 1, SellPick(price, prices[i + 1]))

Authorize_NoUserSigner(rec, c) ==
  IF ~c.owner_ok THEN "AccessDenied"
  ELSE IF ~c.sync_signer THEN "InvalidSigner"
  ELSE IF ~rec.is_initialized THEN "NotInitialized"
  ELSE ""

\* processor.rs:42-55 (and 184-197): ownership, signers, initialization
Authorize(rec, c) ==
  IF ~c.owner_ok THEN "AccessDenied"
  ELSE IF ~c.sync_signer THEN "InvalidSigner"
  ELSE IF ~c.user_signer THEN "InvalidSigner"
  ELSE IF ~rec.is_initialized THEN "NotInitialized"
  ELSE ""

QuorumCount_OraclesOnly(rec, c) ==
  IF Len(c.oracles) < rec.minimum_required_signature THEN "NotEnoughOracles"
  ELSE IF Len(c.prices) = 0 THEN "Panic"
  ELSE ""

\* processor.rs:57-65
QuorumCount(rec, c) ==
  IF Len(c.oracles) < rec.minimum_required_signature THEN "NotEnoughOracles"
  ELSE IF Len(c.prices) < rec.minimum_required_signature THEN "NotEnoughOracles"
  ELSE IF Len(c.prices) = 0 THEN "Panic"     \* prices[0] out of bounds
  ELSE ""

BuyBindings_NoUserMint(rec, c) ==
  IF TokenAccount[c.sync_coll].mint # rec.collateral_token_key THEN "BadCollateralMint"
  ELSE IF TokenAccount[c.sync_coll].owner # SyncKey THEN "OwnerMismatch"
  ELSE IF TokenAccount[c.user_coll].owner # UserKey THEN "OwnerMismatch"
  ELSE IF Mint[c.fiat_mint].decimals # DEFAULT_DECIMALS THEN "BadDecimals"
  ELSE IF Mint[c.fiat_mint].mint_authority # SyncKey THEN "BadMintAuthority"
  ELSE IF TokenAccount[c.user_fiat].owner # UserKey THEN "OwnerMismatch"
  ELSE ""

\* processor.rs:77-109
BuyBindings(rec, c) ==
  IF TokenAccount[c.sync_coll].mint # rec.collateral_token_key THEN "BadCollateralMint"
  ELSE IF TokenAccount[c.sync_coll].owner # SyncKey THEN "OwnerMismatch"
  ELSE IF TokenAccount[c.user_coll].mint # rec.collateral_token_key THEN "BadCollateralMint"
  ELSE IF TokenAccount[c.user_coll].owner # UserKey THEN "OwnerMismatch"
  ELSE IF Mint[c.fiat_mint].decimals # DEFAULT_DECIMALS THEN "BadDecimals"
  ELSE IF Mint[c.fiat_mint].mint_authority # SyncKey THEN "BadMintAuthority"
  ELSE IF TokenAccount[c.user_fiat].owner # UserKey THEN "OwnerMismatch"
  ELSE ""

\* processor.rs:219-242
SellBindings(rec, c) ==
  IF TokenAccount[c.sync_coll].mint # rec.collateral_token_key THEN "BadCollateralMint"
  ELSE IF TokenAccount[c.user_coll].mint # rec.collateral_token_key THEN "BadCollateralMint"
  ELSE IF TokenAccount[c.sync_coll].owner # SyncKey THEN "OwnerMismatch"
  ELSE IF TokenAccount[c.user_coll].owner # UserKey THEN "OwnerMismatch"
  ELSE IF TokenAccount[c.user_fiat].owner # UserKey THEN "OwnerMismatch"
  ELSE IF Mint[c.fiat_mint].decimals # DEFAULT_DECIMALS THEN "BadDecimals"
  ELSE ""

\* ------------------------------------------------------- transition engine
\* processor.rs:161-163, the record as updated by a buy
BuyUpdate(rec, delta, fee_amount) ==
  [rec EXCEPT !.remaining_dollar_cap = Wrap(@ - delta),
              !.withdrawable_fee_amount = Wrap(@ + fee_amount)]

\* processor.rs:297-299
SellUpdate(rec, delta, fee_amount) ==
  [rec EXCEPT !.remaining_dollar_cap = Wrap(@ + delta),
              !.withdrawable_fee_amount = Wrap(@ + fee_amount)]

BuyPayment_NoFee(collateral_amount, fee_amount) == Wrap(collateral_amount)

\* processor.rs:121,132  `collateral_amount + fee_amount` in u64
BuyPayment(collateral_amount, fee_amount) == Wrap(collateral_amount + fee_amount)

SellPayout_Gross(collateral_amount, fee_amount) == Wrap(collateral_amount)

\* processor.rs:257,286  `collateral_amount - fee_amount` in u64
SellPayout(collateral_amount, fee_amount) == Wrap(collateral_amount - fee_amount)

\* process_buy_for issuing mint_to before the collateral transfer
BuyExecute_MintFirst(rec, bal, c, price) ==
  LET collateral_amount == CollateralAmount(c.amount, price)
      fee_amount == FeeAmount(c.amount, price, c.fee)
      loc == [price |-> price, collateral_amount |-> collateral_amount,
              fee_amount |-> fee_amount]
      total == collateral_amount + fee_amount
      pay == BuyPayment(collateral_amount, fee_amount)
      ok1 == c.fault # 1 /\ MintToOk(bal, c.fiat_mint, c.user_fiat, SyncKey, c.amount)
      led1 == <<Issued("mint_to", c.fiat_mint, c.user_fiat, c.amount, ok1)>>
      bal1 == MintTo(bal, c.user_fiat, c.amount)
      ok2 == c.fault # 2 /\ TransferOk(bal1, c.user_coll, c.sync_coll, UserKey, pay)
      led2 == Append(led1, Issued("transfer", c.user_coll, c.sync_coll, pay, ok2))
      bal2 == Transfer(bal1, c.user_coll, c.sync_coll, pay)
      delta == CapDelta(c.amount, price, c.multiplier)
  IN
  IF c.overflow_checks /\ ~InRange(total) THEN Out("Panic", rec, bal, loc, <<>>)
  ELSE IF bal[c.user_coll] < pay THEN Out("InsufficientFunds", rec, bal, loc, <<>>)
  ELSE IF ~ok1 THEN Out("LedgerError", rec, bal, loc, led1)
  ELSE IF ~ok2 THEN Out("LedgerError", rec, bal1, loc, led2)
  ELSE IF c.overflow_checks /\ ~InRange(rec.remaining_dollar_cap - delta)
       THEN Out("Panic", rec, bal2, loc, led2)
  ELSE IF c.overflow_checks /\ ~InRange(rec.withdrawable_fee_amount + fee_amount)
       THEN Out("Panic", rec, bal2, loc, led2)
  ELSE Packed(rec, BuyUpdate(rec, delta, fee_amount), bal2, loc, led2)

\* processor.rs:113-165
BuyExecute(rec, bal, c, price) ==
  LET collateral_amount == CollateralAmount(c.amount, price)
      fee_amount == FeeAmount(c.amount, price, c.fee)
      loc == [price |-> price, collateral_amount |-> collateral_amount,
              fee_amount |-> fee_amount]
      total == collateral_amount + fee_amount
      pay == BuyPayment(collateral_amount, fee_amount)
      ok1 == c.fault # 1 /\ TransferOk(bal, c.user_coll, c.sync_coll, UserKey, pay)
      led1 == <<Issued("transfer", c.user_coll, c.sync_coll, pay, ok1)>>
      bal1 == Transfer(bal, c.user_coll, c.sync_coll, pay)
      ok2 == c.fault # 2 /\ MintToOk(bal1, c.fiat_mint, c.user_fiat, SyncKey, c.amount)
      led2 == Append(led1, Issued("mint_to", c.fiat_mint, c.user_fiat, c.amount, ok2))
      bal2 == MintTo(bal1, c.user_fiat, c.amount)
      delta == CapDelta(c.amount, price, c.multiplier)
  IN
  IF c.overflow_checks /\ ~InRange(total) THEN Out("Panic", rec, bal, loc, <<>>)
  ELSE IF bal[c.user_coll] < pay THEN Out("InsufficientFunds", rec, bal, loc, <<>>)
  ELSE IF ~ok1 THEN Out("LedgerError", rec, bal, loc, led1)
  ELSE IF ~ok2 THEN Out("LedgerError", rec, bal1, loc, led2)
  ELSE IF c.overflow_checks /\ ~InRange(rec.remaining_dollar_cap - delta)
       THEN Out("Panic", rec, bal2, loc, led2)
  ELSE IF c.overflow_checks /\ ~InRange(rec.withdrawable_fee_amount + fee_amount)
       THEN Out("Panic", rec, bal2, loc, led2)
  ELSE Packed(rec, BuyUpdate(rec, delta, fee_amount), bal2, loc, led2)

\* processor.rs:26-166
process_buy_for(rec, bal, c) ==
  LET auth == Authorize(rec, c)
      count == QuorumCount(rec, c)
      sel == BuyPriceLoop(rec, c.oracles, c.prices, 0, c.prices[1])
      bind == BuyBindings(rec, c)
  IN
  IF auth # "" THEN Reject(rec, bal, auth)
  ELSE IF count # "" THEN Reject(rec, bal, count)
  ELSE IF sel.err # "" THEN Reject(rec, bal, sel.err)
  ELSE IF bind # "" THEN Reject(rec, bal, bind)
  ELSE BuyExecute(rec, bal, c, sel.price)

SellCollateralShort_Never(bal, c, payout) == FALSE

\* processor.rs:257  `synchronizer_collateral_account.amount < (collateral_amount - fee_amount)`
SellCollateralShort(bal, c, payout) == bal[c.sync_coll] < payout

\* processor.rs:246-301
SellExecute(rec, bal, c, price) ==
  LET collateral_amount == CollateralAmount(c.amount, price)
      fee_amount == FeeAmount(c.amount, price, c.fee)
      loc == [price |-> price, collateral_amount |-> collateral_amount,
              fee_amount |-> fee_amount]
      net == collateral_amount - fee_amount
      payout == SellPayout(collateral_amount, fee_amount)
      ok1 == c.fault # 1 /\ BurnOk(bal, c.user_fiat, c.fiat_mint, UserKey, c.amount)
      led1 == <<Issued("burn", c.user_fiat, c.fiat_mint, c.amount, ok1)>>
      bal1 == Burn(bal, c.user_fiat, c.amount)
      ok2 == c.fault # 2 /\ TransferOk(bal1, c.sync_coll, c.user_coll, SyncKey, payout)
      led2 == Append(led1, Issued("transfer", c.sync_coll, c.user_coll, payout, ok2))
      bal2 == Transfer(bal1, c.sync_coll, c.user_coll, payout)
      delta == CapDelta(c.amount, price, c.multiplier)
  IN
  IF bal[c.user_fiat] < c.amount THEN Out("InsufficientFunds", rec, bal, loc, <<>>)
  ELSE IF c.overflow_checks /\ ~InRange(net) THEN Out("Panic", rec, bal, loc, <<>>)
  ELSE IF SellCollateralShort(bal, c, payout) THEN Out("InsufficientFunds", rec, bal, loc, <<>>)
  ELSE IF ~ok1 THEN Out("LedgerError", rec, bal, loc, led1)
  ELSE IF ~ok2 THEN Out("LedgerError", rec, bal1, loc, led2)
  ELSE IF c.overflow_checks /\ ~InRange(rec.remaining_dollar_cap + delta)
       THEN Out("Panic", rec, bal2, loc, led2)
  ELSE IF c.overflow_checks /\ ~InRange(rec.withdrawable_fee_amount + fee_amount)
       THEN Out("Panic", rec, bal2, loc, led2)
  ELSE Packed(rec, SellUpdate(rec, delta, fee_amount), bal2, loc, led2)

\* processor.rs:168-302
process_sell_for(rec, bal, c) ==
  LET auth == Authorize(rec, c)
      count == QuorumCount(rec, c)
      sel == SellPriceLoop(rec, c.oracles, c.prices, 0, c.prices[1])
      bind == SellBindings(rec, c)
  IN
  IF auth # "" THEN Reject(rec, bal, auth)
  ELSE IF count # "" THEN Reject(rec, bal, count)
  ELSE IF sel.err # "" THEN Reject(rec, bal, sel.err)
  ELSE IF bind # "" THEN Reject(rec, bal, bind)
  ELSE SellExecute(rec, bal, c, sel.price)


AdminGate_SignerFirst(c) ==
  IF ~c.signer THEN "InvalidSigner"
  ELSE IF ~c.owner_ok THEN "AccessDenied"
  ELSE ""

\* processor.rs:316-322 (and the same two checks opening every admin handler)
AdminGate(c) ==
  IF ~c.owner_ok THEN "AccessDenied"
  ELSE IF ~c.signer THEN "InvalidSigner"
  ELSE ""

InitializedRecord_NoThreshold(rec, c) ==
  [ is_initialized |-> TRUE,
    collateral_token_key |-> c.collateral_token_key,
    remaining_dollar_cap |-> c.remaining_dollar_cap,
    withdrawable_fee_amount |-> c.withdrawable_fee_amount,
    minimum_required_signature |-> rec.minimum_required_signature,
    oracles |-> [i \in 1..MAX_ORACLES |->
                   IF i <= Len(c.oracles) THEN c.oracles[i] ELSE rec.oracles[i]] ]

\* processor.rs:343-350
InitializedRecord(rec, c) ==
  [ is_initialized |-> TRUE,
    collateral_token_key |-> c.collateral_token_key,
    remaining_dollar_cap |-> c.remaining_dollar_cap,
    withdrawable_fee_amount |-> c.withdrawable_fee_amount,
    minimum_required_signature |-> c.minimum_required_signature,
    oracles |-> [i \in 1..MAX_ORACLES |->
                   IF i <= Len(c.oracles) THEN c.oracles[i] ELSE rec.oracles[i]] ]

process_initialize_synchronizer_account_NoRent(rec, bal, c) ==
  LET gate == AdminGate(c) IN
  IF gate # "" THEN Reject(rec, bal, gate)
  ELSE IF Len(c.oracles) > MAX_ORACLES THEN Reject(rec, bal, "MaxOraclesExceed")
  ELSE IF c.minimum_required_signature > MAX_SIGNERS THEN Reject(rec, bal, "MaxSignersExceed")
  ELSE IF rec.is_initialized THEN Reject(rec, bal, "AlreadyInitialized")
  ELSE Packed(rec, InitializedRecord(rec, c), bal, NoLocals, <<>>)

\* processor.rs:304-355
process_initialize_synchronizer_account(rec, bal, c) ==
  LET gate == AdminGate(c) IN
  IF gate # "" THEN Reject(rec, bal, gate)
  ELSE IF Len(c.oracles) > MAX_ORACLES THEN Reject(rec, bal, "MaxOraclesExceed")
  ELSE IF c.minimum_required_signature > MAX_SIGNERS THEN Reject(rec, bal, "MaxSignersExceed")
  ELSE IF rec.is_initialized THEN Reject(rec, bal, "AlreadyInitialized")
  ELSE IF ~c.rent_exempt THEN Reject(rec, bal, "NotRentExempt")
  ELSE Packed(rec, InitializedRecord(rec, c), bal, NoLocals, <<>>)

process_set_minimum_required_signature_Unbounded(rec, bal, c) ==
  LET gate == AdminGate(c) IN
  IF gate # "" THEN Reject(rec, bal, gate)
  ELSE IF ~rec.is_initialized THEN Reject(rec, bal, "NotInitialized")
  ELSE Packed(rec, [rec EXCEPT !.minimum_required_signature = c.minimum_required_signature],
              bal, NoLocals, <<>>)

process_set_minimum_required_signature_InitFirst(rec, bal, c) ==
  LET gate == AdminGate(c) IN
  IF gate # "" THEN Reject(rec, bal, gate)
  ELSE IF ~rec.is_initialized THEN Reject(rec, bal, "NotInitialized")
  ELSE IF c.minimum_required_signature > MAX_ORACLES THEN Reject(rec, bal, "MaxOraclesExceed")
  ELSE IF c.minimum_required_signature > MAX_SIGNERS THEN Reject(rec, bal, "MaxSignersExceed")
  ELSE Packed(rec, [rec EXCEPT !.minimum_required_signature = c.minimum_required_signature],
              bal, NoLocals, <<>>)

\* processor.rs:357-390
process_set_minimum_required_signature(rec, bal, c) ==
  LET gate == AdminGate(c) IN
  IF gate # "" THEN Reject(rec, bal, gate)
  ELSE IF c.minimum_required_signature > MAX_ORACLES THEN Reject(rec, bal, "MaxOraclesExceed")
  ELSE IF c.minimum_required_signature > MAX_SIGNERS THEN Reject(rec, bal, "MaxSignersExceed")
  ELSE IF ~rec.is_initialized THEN Reject(rec, bal, "NotInitialized")
  ELSE Packed(rec, [rec EXCEPT !.minimum_required_signature = c.minimum_required_signature],
              bal, NoLocals, <<>>)

process_set_collateral_token_Unguarded(rec, bal, c) ==
  LET gate == AdminGate(c) IN
  IF gate # "" THEN Reject(rec, bal, gate)
  ELSE Packed(rec, [rec EXCEPT !.collateral_token_key = c.collateral_token_key],
              bal, NoLocals, <<>>)

\* processor.rs:392-417
process_set_collateral_token(rec, bal, c) ==
  LET gate == AdminGate(c) IN
  IF gate # "" THEN Reject(rec, bal, gate)
  ELSE IF ~rec.is_initialized THEN Reject(rec, bal, "NotInitialized")
  ELSE Packed(rec, [rec EXCEPT !.collateral_token_key = c.collateral_token_key],
              bal, NoLocals, <<>>)

process_set_remaining_dollar_cap_ResetPool(rec, bal, c) ==
  LET gate == AdminGate(c) IN
  IF gate # "" THEN Reject(rec, bal, gate)
  ELSE IF ~rec.is_initialized THEN Reject(rec, bal, "NotInitialized")
  ELSE Packed(rec, [rec EXCEPT !.remaining_dollar_cap = c.remaining_dollar_cap,
                               !.withdrawable_fee_amount = 0],
              bal, NoLocals, <<>>)

\* processor.rs:419-444
process_set_remaining_dollar_cap(rec, bal, c) ==
  LET gate == AdminGate(c) IN
  IF gate # "" THEN Reject(rec, bal, gate)
  ELSE IF ~rec.is_initialized THEN Reject(rec, bal, "NotInitialized")
  ELSE Packed(rec, [rec EXCEPT !.remaining_dollar_cap = c.remaining_dollar_cap],
              bal, NoLocals, <<>>)

\* processor.rs:446-480
process_set_oracles(rec, bal, c) ==
  LET gate == AdminGate(c) IN
  IF gate # "" THEN Reject(rec, bal, gate)
  ELSE IF Len(c.oracles) > MAX_ORACLES THEN Reject(rec, bal, "MaxOraclesExceed")
  ELSE IF ~rec.is_initialized THEN Reject(rec, bal, "NotInitialized")
  ELSE Packed(rec,
              [rec EXCEPT !.oracles = [i \in 1..MAX_ORACLES |->
                 IF i <= Len(c.oracles) THEN c.oracles[i] ELSE ZeroKey]],
              bal, NoLocals, <<>>)

process_withdraw_fee_PackFirst(rec, bal, c) ==
  LET gate == AdminGate(c)
      ok == c.fault # 1 /\ TransferOk(bal, c.sync_coll, c.recipient, SyncKey, c.amount)
      led == <<Issued("transfer", c.sync_coll, c.recipient, c.amount, ok)>>
      packed == [rec EXCEPT !.withdrawable_fee_amount = @ - c.amount]
  IN
  IF gate # "" THEN Reject(rec, bal, gate)
  ELSE IF ~rec.is_initialized THEN Reject(rec, bal, "NotInitialized")
  ELSE IF rec.withdrawable_fee_amount < c.amount THEN Reject(rec, bal, "InsufficientFunds")
  ELSE IF ~ok THEN Out("LedgerError", packed, bal, NoLocals, led)
  ELSE Packed(rec, packed, Transfer(bal, c.sync_coll, c.recipient, c.amount), NoLocals, led)

process_withdraw_fee_KeepPool(rec, bal, c) ==
  LET gate == AdminGate(c)
      ok == c.fault # 1 /\ TransferOk(bal, c.sync_coll, c.recipient, SyncKey, c.amount)
      led == <<Issued("transfer", c.sync_coll, c.recipient, c.amount, ok)>>
  IN
  IF gate # "" THEN Reject(rec, bal, gate)
  ELSE IF ~rec.is_initialized THEN Reject(rec, bal, "NotInitialized")
  ELSE IF rec.withdrawable_fee_amount < c.amount THEN Reject(rec, bal, "InsufficientFunds")
  ELSE IF ~ok THEN Out("LedgerError", rec, bal, NoLocals, led)
  ELSE Packed(rec, rec, Transfer(bal, c.sync_coll, c.recipient, c.amount), NoLocals, led)

\* processor.rs:482-530
process_withdraw_fee(rec, bal, c) ==
  LET gate == AdminGate(c)
      ok == c.fault # 1 /\ TransferOk(bal, c.sync_coll, c.recipient, SyncKey, c.amount)
      led == <<Issued("transfer", c.sync_coll, c.recipient, c.amount, ok)>>
  IN
  IF gate # "" THEN Reject(rec, bal, gate)
  ELSE IF ~rec.is_initialized THEN Reject(rec, bal, "NotInitialized")
  ELSE IF rec.withdrawable_fee_amount < c.amount THEN Reject(rec, bal, "InsufficientFunds")
  ELSE IF ~ok THEN Out("LedgerError", rec, bal, NoLocals, led)
  ELSE Packed(rec, [rec EXCEPT !.withdrawable_fee_amount = @ - c.amount],
              Transfer(bal, c.sync_coll, c.recipient, c.amount), NoLocals, led)

process_withdraw_collateral_DebitPool(rec, bal, c) ==
  LET gate == AdminGate(c)
      ok == c.fault # 1 /\ TransferOk(bal, c.sync_coll, c.recipient, SyncKey, c.amount)
      led == <<Issued("transfer", c.sync_coll, c.recipient, c.amount, ok)>>
  IN
  IF gate # "" THEN Reject(rec, bal, gate)
  ELSE IF ~rec.is_initialized THEN Reject(rec, bal, "NotInitialized")
  ELSE IF bal[c.sync_coll] < c.amount THEN Reject(rec, bal, "InsufficientFunds")
  ELSE IF ~ok THEN Out("LedgerError", rec, bal, NoLocals, led)
  ELSE Out("Ok", [rec EXCEPT !.withdrawable_fee_amount = Wrap(@ - c.amount)],
           Transfer(bal, c.sync_coll, c.recipient, c.amount), NoLocals, led)

\* processor.rs:532-577
process_withdraw_collateral(rec, bal, c) ==
  LET gate == AdminGate(c)
      ok == c.fault # 1 /\ TransferOk(bal, c.sync_coll, c.recipient, SyncKey, c.amount)
      led == <<Issued("transfer", c.sync_coll, c.recipient, c.amount, ok)>>
  IN
  IF gate # "" THEN Reject(rec, bal, gate)
  ELSE IF ~rec.is_initialized THEN Reject(rec, bal, "NotInitialized")
  ELSE IF bal[c.sync_coll] < c.amount THEN Reject(rec, bal, "InsufficientFunds")
  ELSE IF ~ok THEN Out("LedgerError", rec, bal, NoLocals, led)
  ELSE Out("Ok", rec, Transfer(bal, c.sync_coll, c.recipient, c.amount), NoLocals, led)


\* ------------------------------------------------------------- invocations
\* an account presented as an oracle: its key and whether it signed
Acc(key, signed) == [key |-> key, is_signer |-> signed]

\* the oracle accounts a caller may append to the account list
OracleLists ==
  { <<>>,
    <<Acc("o1", TRUE)>>,
    <<Acc("o1", TRUE), Acc("o2", TRUE)>>,
    <<Acc("o1", TRUE), Acc("x", TRUE)>>,
    <<Acc("x", TRUE), Acc("o1", TRUE)>>,
    <<Acc("o1", TRUE), Acc("o1", TRUE)>>,
    <<Acc("o1", TRUE), Acc("o2", FALSE)>>,
    <<Acc("o1", FALSE), Acc("o2", TRUE)>>,
    <<Acc(ZeroKey, TRUE), Acc("o1", TRUE)>>,
    <<Acc("o1", TRUE), Acc("o2", TRUE), Acc("o3", TRUE)>> }

PriceLists == { <<>>, <<5>>, <<5, 4>>, <<4, 5>>, <<21, 12, 30>>, <<5, 5, 30>> }

\* (multiplier, amount, fee)
Trades ==
  { <<2, 20, 1>>, <<1, 20, 1>>, <<0, 20, 1>>, <<2, 1, 0>>, <<2, 3, 20>>,
    <<2, 20, 20>>, <<2, 0, 1>>, <<30, 20, 1>>, <<0, 100, 3>> }

\* the trades run in a build without overflow checks: some of the above and
\* one at the greatest fee rate a u64 holds
WrappingTrades ==
  { <<2, 20, 1>>, <<30, 20, 1>>, <<2, 20, 20>>, <<0, 100, 3>>, <<2, 20, U64Max>> }

\* the well-formed trade invocation of the functional test, at the model's scale
TradeBase(op) ==
  [ op |-> op, owner_ok |-> TRUE, sync_signer |-> TRUE, user_signer |-> TRUE,
    oracles |-> <<Acc("o1", TRUE), Acc("o2", TRUE)>>, prices |-> <<5, 4>>,
    multiplier |-> 2, amount |-> 20, fee |-> 1,
    fiat_mint |-> "fiat", user_coll |-> "user_usdc", user_fiat |-> "user_fiat",
    sync_coll |-> "sync_usdc", fault |-> 0, overflow_checks |-> TRUE ]

WithTrade(c, t) == [c EXCEPT !.multiplier = t[1], !.amount = t[2], !.fee = t[3]]

\* trade invocations: the three authorization flags in every combination;
\* every presented oracle list; every price list against a short, the usual
\* and a long oracle list; every trade against two price lists; some of them
\* in a build without overflow checks; each ledger fault; the token accounts
\* and the synthetic mint
TradeCalls(op) ==
  LET b == TradeBase(op) IN
    { [b EXCEPT !.owner_ok = o, !.sync_signer = s, !.user_signer = u] :
        o \in BOOLEAN, s \in BOOLEAN, u \in BOOLEAN }
    \cup { [b EXCEPT !.oracles = l] : l \in OracleLists }
    \cup { [b EXCEPT !.oracles = l, !.prices = p] :
             l \in { <<>>, <<Acc("o1", TRUE), Acc("x", TRUE)>>,
                     <<Acc("o1", TRUE), Acc("o2", TRUE), Acc("o3", TRUE)>> },
             p \in PriceLists }
    \cup { [WithTrade(b, t) EXCEPT !.prices = p] :
             t \in Trades, p \in {<<5, 4>>, <<21, 12, 30>>} }
    \cup { [WithTrade(b, t) EXCEPT !.prices = p, !.overflow_checks = FALSE] :
             t \in WrappingTrades, p \in {<<5, 4>>, <<21, 12, 30>>} }
    \cup { [b EXCEPT !.fault = f] : f \in 1..2 }
    \cup { [b EXCEPT !.sync_coll = sc, !.user_coll = uc] :
             sc \in {"sync_usdc", "sync_usdt", "other_usdc"},
             uc \in {"user_usdc", "user_usdt", "other_usdc"} }
    \cup { [b EXCEPT !.user_fiat = uf, !.fiat_mint = m] :
             uf \in {"user_fiat", "other_fiat", "user_fiatx"}, m \in DOMAIN Mint }

BuyCalls == TradeCalls("BuyFor")
SellCalls == TradeCalls("SellFor")

AdminBase(op) == [op |-> op, owner_ok |-> TRUE, signer |-> TRUE]

AdminGates(b) == { [b EXCEPT !.owner_ok = o, !.signer = s] : o \in BOOLEAN, s \in BOOLEAN }

KeyLists ==
  { <<>>, <<"o1">>, <<"o1", "o2">>, <<"o1", "o2", "o3">>, <<"o2", "o3", "x">>,
    <<"o1", "o2", "o3", "x">> }

InitBase ==
  AdminBase("InitializeAccount") @@
  [ collateral_token_key |-> "usdc", remaining_dollar_cap |-> 50,
    withdrawable_fee_amount |-> 0, minimum_required_signature |-> 2,
    oracles |-> <<"o1", "o2">>, rent_exempt |-> TRUE ]

InitCalls ==
  AdminGates(InitBase)
  \cup { [InitBase EXCEPT !.minimum_required_signature = k] :
           k \in {0, MAX_SIGNERS, MAX_SIGNERS + 1} }
  \cup { [InitBase EXCEPT !.oracles = l] :
           l \in { <<"o1", "o2", "o3">>, <<"o1", "o2", "o3", "x">> } }
  \cup { [InitBase EXCEPT !.rent_exempt = FALSE],
         [InitBase EXCEPT !.remaining_dollar_cap = 5, !.withdrawable_fee_amount = 3],
         [InitBase EXCEPT !.withdrawable_fee_amount = U64Max],
         [InitBase EXCEPT !.minimum_required_signature = MAX_SIGNERS + 1,
                          !.oracles = <<"o1", "o2", "o3", "x">>] }

SetMinCalls ==
  AdminGates(AdminBase("SetMinimumRequiredSignatures") @@ [minimum_required_signature |-> 1])
  \cup { AdminBase("SetMinimumRequiredSignatures") @@ [minimum_required_signature |-> k] :
           k \in 0..(MAX_SIGNERS + 1) }

SetTokenCalls ==
  AdminGates(AdminBase("SetCollateralToken") @@ [collateral_token_key |-> "usdt"])
  \cup { AdminBase("SetCollateralToken") @@ [collateral_token_key |-> t] :
           t \in {"usdc", "usdt"} }

SetCapCalls ==
  AdminGates(AdminBase("SetRemainingDollarCap") @@ [remaining_dollar_cap |-> 5])
  \cup { AdminBase("SetRemainingDollarCap") @@ [remaining_dollar_cap |-> cap] :
           cap \in {0, 5, U64Max} }

SetOraclesCalls ==
  AdminGates(AdminBase("SetOracles") @@ [oracles |-> <<"o1">>])
  \cup { AdminBase("SetOracles") @@ [oracles |-> l] : l \in KeyLists }

WithdrawBase(op) ==
  AdminBase(op) @@
  [amount |-> 1, sync_coll |-> "sync_usdc", recipient |-> "other_usdc", fault |-> 0]

WithdrawCalls(op) ==
  LET b == WithdrawBase(op) IN
    AdminGates(b)
    \cup { [b EXCEPT !.amount = a] : a \in {0, 1, 3, 25, U64Max} }
    \cup { [b EXCEPT !.fault = 1] }
    \cup { [b EXCEPT !.sync_coll = sc] : sc \in {"sync_usdt", "user_usdc"} }
    \cup { [b EXCEPT !.recipient = r] : r \in {"user_usdc", "sync_usdc"} }

WithdrawFeeCalls == WithdrawCalls("WithdrawFee")
WithdrawCollateralCalls == WithdrawCalls("WithdrawCollateral")

\* -------------------------------------------------------- instruction codec
\* The wire format of SynchronizerInstruction (instruction.rs).  A byte has
\* ByteBits bits (8 in the code), a u64 occupies U64Bytes bytes (8 in the
\* code), least significant first, and a Pubkey PubkeyBytes bytes (32 in the
\* code); U64Bytes bytes hold every value of the model's word.
ByteBits == 4
U64Bytes == 2
PubkeyBytes == 2

ByteModulus == 2 ^ ByteBits
\* u8::MAX: the largest tag, threshold or element count one byte holds
ByteMax == ByteModulus - 1

\* what pack and unpack produce: a value, the error they return, or an abort
CodecOk(v) == [result |-> "Ok", value |-> v]
InvalidInstruction == [result |-> "InvalidInstruction", value |-> <<>>]
CodecPanic == [result |-> "Panic", value |-> <<>>]

\* the identities of the model, in the order that numbers their bytes
KeyNames ==
  << ZeroKey, SyncKey, UserKey, OtherKey, "usdc", "usdt", "o1", "o2", "o3", "x" >>

KeyIndex(k) == CHOOSE i \in DOMAIN KeyNames : KeyNames[i] = k

\* v.to_le_bytes()
to_le_bytes(v) ==
  [i \in 1..U64Bytes |-> (v \div (ByteModulus ^ (i - 1))) % ByteModulus]

\* u64::from_le_bytes(b)
from_le_bytes(b) ==
  LET Sum[i \in 0..U64Bytes] ==
        IF i = 0 THEN 0 ELSE Sum[i - 1] + b[i] * (ByteModulus ^ (i - 1))
  IN Sum[U64Bytes]

\* key.as_ref(): the bytes of a Pubkey; Pubkey::default() is all zero
as_ref(k) ==
  [i \in 1..PubkeyBytes |-> ((KeyIndex(k) - 1) \div (ByteModulus ^ (i - 1))) % ByteModulus]

\* Pubkey::new(key): the identity with these bytes (the bytes themselves when
\* the model names no such identity)
Pubkey_new(b) ==
  IF \E i \in DOMAIN KeyNames : as_ref(KeyNames[i]) = b
    THEN KeyNames[CHOOSE i \in DOMAIN KeyNames : as_ref(KeyNames[i]) = b]
    ELSE b

\* buf.extend_from_slice(..) for every element of a list, in order
RECURSIVE Flatten(_)
Flatten(chunks) ==
  IF chunks = <<>> THEN <<>> ELSE Head(chunks) \o Flatten(Tail(chunks))

PackedPrices(prices) == Flatten([i \in 1..Len(prices) |-> to_le_bytes(prices[i])])
PackedKeys(keys) == Flatten([i \in 1..Len(keys) |-> as_ref(keys[i])])

\* the tag byte of each variant
Tag(op) ==
  CASE op = "BuyFor" -> 0
    [] op = "SellFor" -> 1
    [] op = "InitializeAccount" -> 2
    [] op = "SetMinimumRequiredSignatures" -> 3
    [] op = "SetCollateralToken" -> 4
    [] op = "SetRemainingDollarCap" -> 5
    [] op = "WithdrawFee" -> 6
    [] op = "WithdrawCollateral" -> 7
    [] op = "SetOracles" -> 8

\* the list a variant carries (none: the empty list)
ListOf(c) ==
  CASE c.op \in {"BuyFor", "SellFor"} -> c.prices
    [] c.op \in {"InitializeAccount", "SetOracles"} -> c.oracles
    [] OTHER -> <<>>

\* the arms of `match self` in pack, after the tag was pushed
Payload(c) ==
  CASE c.op \in {"BuyFor", "SellFor"} ->
         to_le_bytes(c.multiplier) \o to_le_bytes(c.amount) \o to_le_bytes(c.fee)
         \o <<Len(c.prices)>> \o PackedPrices(c.prices)
    [] c.op = "InitializeAccount" ->
         as_ref(c.collateral_token_key) \o to_le_bytes(c.remaining_dollar_cap)
         \o to_le_bytes(c.withdrawable_fee_amount)
         \o <<c.minimum_required_signature>>
         \o <<Len(c.oracles)>> \o PackedKeys(c.oracles)
    [] c.op = "SetMinimumRequiredSignatures" -> <<c.minimum_required_signature>>
    [] c.op = "SetCollateralToken" -> as_ref(c.collateral_token_key)
    [] c.op = "SetRemainingDollarCap" -> to_le_bytes(c.remaining_dollar_cap)
    [] c.op \in {"WithdrawFee", "WithdrawCollateral"} -> to_le_bytes(c.amount)
    [] c.op = "SetOracles" -> <<Len(c.oracles)>> \o PackedKeys(c.oracles)

\* SynchronizerInstruction::pack with the SellFor arm pushing the tag of BuyFor
pack_SellTagOfBuy(c) ==
  IF Len(ListOf(c)) > ByteMax THEN CodecPanic
  ELSE CodecOk(<<IF c.op = "SellFor" THEN 0 ELSE Tag(c.op)>> \o Payload(c))

\* SynchronizerInstruction::pack: `len().try_into().unwrap()` aborts when the
\* length of the list does not fit the count byte
pack(c) ==
  IF Len(ListOf(c)) > ByteMax THEN CodecPanic
  ELSE CodecOk(<<Tag(c.op)>> \o Payload(c))

\* rest.split_at(n): the two halves; it aborts when n > rest.len()
Front(s, n) == SubSeq(s, 1, n)
Back(s, n) == SubSeq(s, n + 1, Len(s))

\* unpack_pubkey: the key and the rest, or InvalidInstruction on a short input
unpack_pubkey(input) ==
  IF Len(input) >= PubkeyBytes
    THEN CodecOk(<<Pubkey_new(Front(input, PubkeyBytes)), Back(input, PubkeyBytes)>>)
    ELSE InvalidInstruction

\* the loops that read prices_num prices, oracles_num oracles from a slice
UnpackedPrices(slice, n) ==
  [i \in 1..n |-> from_le_bytes(SubSeq(slice, (i - 1) * U64Bytes + 1, i * U64Bytes))]
UnpackedKeys(slice, n) ==
  [i \in 1..n |-> Pubkey_new(SubSeq(slice, (i - 1) * PubkeyBytes + 1, i * PubkeyBytes))]

\* tags 0 | 1: three u64 taken with split_at(8), the count with split_first,
\* the prices with split_at(prices_num * 8)
unpack_trade(op, rest) ==
  IF Len(rest) < U64Bytes THEN CodecPanic
  ELSE IF Len(Back(rest, U64Bytes)) < U64Bytes THEN CodecPanic
  ELSE IF Len(Back(rest, 2 * U64Bytes)) < U64Bytes THEN CodecPanic
  ELSE LET rest3 == Back(rest, 3 * U64Bytes) IN
    IF rest3 = <<>> THEN InvalidInstruction
    ELSE LET prices_num == Head(rest3)
             rest4 == Tail(rest3)
         IN IF prices_num * U64Bytes > Len(rest4) THEN CodecPanic
            ELSE CodecOk([ op |-> op,
                           multiplier |-> from_le_bytes(Front(rest, U64Bytes)),
                           amount |-> from_le_bytes(Front(Back(rest, U64Bytes), U64Bytes)),
                           fee |-> from_le_bytes(Front(Back(rest, 2 * U64Bytes), U64Bytes)),
                           prices |-> UnpackedPrices(rest4, prices_num) ])

\* the count with split_first, the oracles with split_at(oracles_num * 32)
unpack_oracles(rest) ==
  IF rest = <<>> THEN InvalidInstruction
  ELSE LET oracles_num == Head(rest) IN
    IF oracles_num * PubkeyBytes > Len(Tail(rest)) THEN CodecPanic
    ELSE CodecOk(UnpackedKeys(Tail(rest), oracles_num))

\* tag 2: unpack_pubkey(rest).unwrap(), two u64 with split_at(8), the
\* threshold with split_first, then the oracles
unpack_initialize(rest) ==
  IF unpack_pubkey(rest).result # "Ok" THEN CodecPanic
  ELSE LET rest1 == Back(rest, PubkeyBytes) IN
    IF Len(rest1) < U64Bytes THEN CodecPanic
    ELSE IF Len(Back(rest1, U64Bytes)) < U64Bytes THEN CodecPanic
    ELSE LET rest3 == Back(rest1, 2 * U64Bytes) IN
      IF rest3 = <<>> THEN InvalidInstruction
      ELSE LET oracles == unpack_oracles(Tail(rest3)) IN
        IF oracles.result # "Ok" THEN oracles
        ELSE CodecOk([ op |-> "InitializeAccount",
                       collateral_token_key |-> unpack_pubkey(rest).value[1],
                       remaining_dollar_cap |-> from_le_bytes(Front(rest1, U64Bytes)),
                       withdrawable_fee_amount |->
                           from_le_bytes(Front(Back(rest1, U64Bytes), U64Bytes)),
                       minimum_required_signature |-> Head(rest3),
                       oracles |-> oracles.value ])

\* tags 5, 6, 7: one u64 taken with split_at(8)
unpack_u64(rest) ==
  IF Len(rest) < U64Bytes THEN CodecPanic
  ELSE CodecOk(from_le_bytes(Front(rest, U64Bytes)))

\* the arms of `match tag`
unpack_tagged(tag, rest) ==
  CASE tag = 0 -> unpack_trade("BuyFor", rest)
    [] tag = 1 -> unpack_trade("SellFor", rest)
    [] tag = 2 -> unpack_initialize(rest)
    [] tag = 3 ->
         IF rest = <<>> THEN InvalidInstruction
         ELSE CodecOk([ op |-> "SetMinimumRequiredSignatures",
                        minimum_required_signature |-> Head(rest) ])
    [] tag = 4 ->
         IF unpack_pubkey(rest).result # "Ok" THEN CodecPanic
         ELSE CodecOk([ op |-> "SetCollateralToken",
                        collateral_token_key |-> unpack_pubkey(rest).value[1] ])
    [] tag = 5 ->
         IF unpack_u64(rest).result # "Ok" THEN unpack_u64(rest)
         ELSE CodecOk([ op |-> "SetRemainingDollarCap",
                        remaining_dollar_cap |-> unpack_u64(rest).value ])
    [] tag \in {6, 7} ->
         IF unpack_u64(rest).result # "Ok" THEN unpack_u64(rest)
         ELSE CodecOk([ op |-> IF tag = 6 THEN "WithdrawFee" ELSE "WithdrawCollateral",
                        amount |-> unpack_u64(rest).value ])
    [] tag = 8 ->
         IF unpack_oracles(rest).result # "Ok" THEN unpack_oracles(rest)
         ELSE CodecOk([ op |-> "SetOracles", oracles |-> unpack_oracles(rest).value ])
    [] OTHER -> InvalidInstruction

\* SynchronizerInstruction::unpack reading the tag as input[0]
unpack_IndexFirst(input) ==
  IF input = <<>> THEN CodecPanic ELSE unpack_tagged(Head(input), Tail(input))

\* SynchronizerInstruction::unpack: `input.split_first().ok_or(InvalidInstruction)?`
unpack(input) ==
  IF input = <<>> THEN InvalidInstruction ELSE unpack_tagged(Head(input), Tail(input))

\* --------------------------------------------------------------- dispatcher
\* the identity fixed by declare_id!
id == "urNhxed8ocNiFApoooLSAJ1xnWSMUiC9S6fKcRon1rk"

\* check_program_account
check_program_account(program_id) ==
  IF program_id # id THEN "IncorrectProgramId" ELSE "Ok"

\* the accounts that come with a decoded instruction: the well-formed account
\* list of its handler
Accounts(op) ==
  CASE op \in {"BuyFor", "SellFor"} -> TradeBase(op)
    [] op = "InitializeAccount" -> InitBase
    [] op \in {"WithdrawFee", "WithdrawCollateral"} -> WithdrawBase(op)
    [] OTHER -> AdminBase(op)

\* `match instruction`: each variant goes to its handler
Dispatch(rec, bal, c) ==
  CASE c.op = "BuyFor" -> process_buy_for(rec, bal, c)
    [] c.op = "SellFor" -> process_sell_for(rec, bal, c)
    [] c.op = "InitializeAccount" -> process_initialize_synchronizer_account(rec, bal, c)
    [] c.op = "SetMinimumRequiredSignatures" ->
         process_set_minimum_required_signature(rec, bal, c)
    [] c.op = "SetCollateralToken" -> process_set_collateral_token(rec, bal, c)
    [] c.op = "SetRemainingDollarCap" -> process_set_remaining_dollar_cap(rec, bal, c)
    [] c.op = "WithdrawFee" -> process_withdraw_fee(rec, bal, c)
    [] c.op = "WithdrawCollateral" -> process_withdraw_collateral(rec, bal, c)
    [] c.op = "SetOracles" -> process_set_oracles(rec, bal, c)

\* Processor::process_instruction decoding the instruction before it checks
\* the program identity
process_instruction_DecodeFirst(rec, bal, program_id, instruction_data) ==
  LET instruction == unpack(instruction_data) IN
    IF instruction.result # "Ok" THEN Reject(rec, bal, instruction.result)
    ELSE IF check_program_account(program_id) # "Ok"
      THEN Reject(rec, bal, check_program_account(program_id))
    ELSE Dispatch(rec, bal, instruction.value @@ Accounts(instruction.value.op))

\* Processor::process_instruction: the identity check, the decoding (an abort
\* of the decoder ends the invocation), then the handler
process_instruction(rec, bal, program_id, instruction_data) ==
  IF check_program_account(program_id) # "Ok"
    THEN Reject(rec, bal, check_program_account(program_id))
  ELSE LET instruction == unpack(instruction_data) IN
    IF instruction.result # "Ok" THEN Reject(rec, bal, instruction.result)
    ELSE Dispatch(rec, bal, instruction.value @@ Accounts(instruction.value.op))

\* what the invocation leaves as its call: the decoded instruction with its
\* accounts when a handler was called, else the identity and the bytes
\* presented (with a well-formed account list)
Invocation(program_id, instruction_data) ==
  IF check_program_account(program_id) = "Ok" /\ unpack(instruction_data).result = "Ok"
    THEN unpack(instruction_data).value @@ Accounts(unpack(instruction_data).value.op)
    ELSE [ program_id |-> program_id, instruction_data |-> instruction_data ]
         @@ AdminBase("process_instruction")

\* instruction bytes as a caller may send them: none, unknown tags, a cut-off
\* payload, and well-formed instructions
InstructionData ==
  { <<t>> : t \in 9..ByteMax } \cup
  { <<>>, <<ByteMax, 0, 0>>, <<6>>,
    pack([op |-> "WithdrawCollateral", amount |-> 1]).value,
    pack([op |-> "SetRemainingDollarCap", remaining_dollar_cap |-> 5]).value,
    pack([op |-> "InitializeAccount", collateral_token_key |-> "usdc",
          remaining_dollar_cap |-> 50, withdrawable_fee_amount |-> 0,
          minimum_required_signature |-> 2, oracles |-> <<"o1", "o2">>]).value }

\* ------------------------------------------------------------ state machine
\* a freshly created, zero-filled record account owned by the program
ZeroRecord ==
  [ is_initialized |-> FALSE, collateral_token_key |-> ZeroKey,
    remaining_dollar_cap |-> 0, withdrawable_fee_amount |-> 0,
    minimum_required_signature |-> 0,
    oracles |-> [i \in 1..MAX_ORACLES |-> ZeroKey] ]

InitialBalance ==
  [a \in TokenAccounts |->
     CASE a = "user_usdc" -> 80
       [] a = "sync_usdc" -> 30
       [] a = "user_fiat" -> 30
       [] a = "user_usdt" -> 40
       [] a = "user_fiatx" -> 30
       [] OTHER -> 0]

Init ==
  /\ synchronizer = ZeroRecord
  /\ balance = InitialBalance
  /\ call = [op |-> "none"]
  /\ result = "none"
  /\ locals = NoLocals
  /\ ledger = <<>>
  /\ changed = FALSE
  /\ retired = {}
  /\ ncalls = 0

\* An invocation that changed neither the record nor a balance leaves the
\* program where it was: whatever can follow it could have been invoked in its
\* place.  Behaviours are therefore continued only after an invocation that
\* changed something, up to MaxCalls invocations.
CanInvoke == ncalls < MaxCalls /\ (ncalls = 0 \/ changed)

\* the identities held by an oracles array (a zero slot holds none)
OracleKeys(oracles) == { oracles[i] : i \in 1..MAX_ORACLES } \ {ZeroKey}

\* one invocation ran to its return: what it left is the new state
Step(c, out) ==
  /\ synchronizer' = out.rec
  /\ balance' = out.bal
  /\ call' = c
  /\ result' = out.result
  /\ locals' = out.locals
  /\ ledger' = out.ledger
  /\ changed' = (out.rec # synchronizer \/ out.bal # balance)
  /\ retired' = (retired \cup OracleKeys(synchronizer.oracles))
                   \ OracleKeys(out.rec.oracles)
  /\ ncalls' = ncalls + 1

BuyFor ==
  /\ CanInvoke
  /\ \E c \in BuyCalls :
       Step(c, process_buy_for(synchronizer, balance, c))

SellFor ==
  /\ CanInvoke
  /\ \E c \in SellCalls :
       Step(c, process_sell_for(synchronizer, balance, c))

InitializeAccount ==
  /\ CanInvoke
  /\ \E c \in InitCalls :
       Step(c, process_initialize_synchronizer_account(synchronizer, balance, c))

SetMinimumRequiredSignatures ==
  /\ CanInvoke
  /\ \E c \in SetMinCalls :
       Step(c, process_set_minimum_required_signature(synchronizer, balance, c))

SetCollateralToken ==
  /\ CanInvoke
  /\ \E c \in SetTokenCalls :
       Step(c, process_set_collateral_token(synchronizer, balance, c))

SetRemainingDollarCap ==
  /\ CanInvoke
  /\ \E c \in SetCapCalls :
       Step(c, process_set_remaining_dollar_cap(synchronizer, balance, c))

SetOracles ==
  /\ CanInvoke
  /\ \E c \in SetOraclesCalls :
       Step(c, process_set_oracles(synchronizer, balance, c))

WithdrawFee ==
  /\ CanInvoke
  /\ \E c \in WithdrawFeeCalls :
       Step(c, process_withdraw_fee(synchronizer, balance, c))

WithdrawCollateral ==
  /\ CanInvoke
  /\ \E c \in WithdrawCollateralCalls :
       Step(c, process_withdraw_collateral(synchronizer, balance, c))

\* an invocation given as the program identity and the instruction bytes
ProcessInstruction ==
  /\ CanInvoke
  /\ \E program_id \in {id, OtherKey}, instruction_data \in InstructionData :
       Step(Invocation(program_id, instruction_data),
            process_instruction(synchronizer, balance, program_id, instruction_data))

Next ==
  \/ BuyFor
  \/ SellFor
  \/ InitializeAccount
  \/ SetMinimumRequiredSignatures
  \/ SetCollateralToken
  \/ SetRemainingDollarCap
  \/ SetOracles
  \/ WithdrawFee
  \/ WithdrawCollateral
  \/ ProcessInstruction

Spec == Init /\ [][Next]_vars

\* ------------------------------------------------- the codec on its inputs
\* a list of n copies of v
Repeat(v, n) == [i \in 1..n |-> v]

\* u64 values: zero, one, one in each byte, distinct bytes, the largest
PriceVectors ==
  { <<>>, <<ByteModulus + 2>>, <<5, 4>>, Repeat(1, ByteMax), Repeat(1, ByteMax + 1) }

OracleVectors ==
  { <<>>, <<"o1", "o2">>, <<"o1", "o2", "o3", "x">>,
    Repeat("o1", ByteMax), Repeat("x", ByteMax + 1) }

\* in-memory instructions of the nine variants
Commands ==
  { [op |-> op, multiplier |-> t[1], amount |-> t[2], fee |-> t[3], prices |-> p] :
      op \in {"BuyFor", "SellFor"},
      t \in { <<0, 0, 0>>, <<1, ByteModulus + 2, U64Max>>, <<U64Max, 1, ByteModulus>> },
      p \in PriceVectors }
  \cup { [ op |-> "InitializeAccount", collateral_token_key |-> k,
           remaining_dollar_cap |-> a[1], withdrawable_fee_amount |-> a[2],
           minimum_required_signature |-> m, oracles |-> l ] :
           k \in {"usdc", ZeroKey},
           a \in { <<50, 0>>, <<ByteModulus + 2, U64Max>> },
           m \in {0, 2, ByteMax},
           l \in OracleVectors }
  \cup { [op |-> "SetMinimumRequiredSignatures", minimum_required_signature |-> m] :
           m \in {0, 1, ByteMax} }
  \cup { [op |-> "SetCollateralToken", collateral_token_key |-> k] :
           k \in {"usdc", "usdt", ZeroKey} }
  \cup { [op |-> "SetRemainingDollarCap", remaining_dollar_cap |-> v] :
           v \in {0, ByteModulus + 2, U64Max} }
  \cup { [op |-> op, amount |-> v] :
           op \in {"WithdrawFee", "WithdrawCollateral"},
           v \in {0, ByteModulus + 2, U64Max} }
  \cup { [op |-> "SetOracles", oracles |-> l] : l \in OracleVectors }

\* the instructions pack encodes
Encodable == { c \in Commands : pack(c).result = "Ok" }

\* byte strings handed to unpack: every prefix of every encoding (the empty
\* one and the whole one included), and strings with a tag outside 0..8
CodecInputs ==
  UNION { { [op |-> "bytes", instruction |-> c, input |-> Front(pack(c).value, n)] :
              n \in 0..Len(pack(c).value) } : c \in Encodable }
  \cup { [op |-> "bytes", instruction |-> [op |-> "none"], input |-> <<t>> \o r] :
          t \in 9..ByteMax, r \in { <<>>, <<0>>, <<1, 0, 0>> } }

CodecInit ==
  /\ synchronizer = ZeroRecord
  /\ balance = InitialBalance
  /\ call \in { [op |-> "command", instruction |-> c, input |-> <<>>] : c \in Commands }
              \cup CodecInputs
  /\ result = "none"
  /\ locals = NoLocals
  /\ ledger = <<>>
  /\ changed = FALSE
  /\ retired = {}
  /\ ncalls = 0

\* instruction.pack()
Pack ==
  /\ call.op = "command"
  /\ call' = [call EXCEPT !.op = "pack"]
  /\ result' = pack(call.instruction)
  /\ UNCHANGED <<synchronizer, balance, locals, ledger, changed, retired, ncalls>>

\* SynchronizerInstruction::unpack(&packed) of what pack returned
UnpackPacked ==
  /\ call.op = "pack"
  /\ result.result = "Ok"
  /\ call' = [call EXCEPT !.op = "unpack_packed", !.input = result.value]
  /\ result' = unpack(result.value)
  /\ UNCHANGED <<synchronizer, balance, locals, ledger, changed, retired, ncalls>>

\* SynchronizerInstruction::unpack(input) of bytes a caller sent
Unpack ==
  /\ call.op = "bytes"
  /\ call' = [call EXCEPT !.op = "unpack"]
  /\ result' = unpack(call.input)
  /\ UNCHANGED <<synchronizer, balance, locals, ledger, changed, retired, ncalls>>

CodecNext ==
  \/ Pack
  \/ UnpackPacked
  \/ Unpack

CodecSpec == CodecInit /\ [][CodecNext]_vars

\* ------------------------------------------------------ the record's bytes
\* SynchronizerData as bytes (state.rs).  LEN is written for ten oracle slots
\* ("32 * MAX_ORACLES(10)", 370 in the code); the fields are taken from the
\* front of the buffer one after the other, the oracles array with its
\* MAX_ORACLES slots last, and the bytes behind them are neither written nor
\* read.
LEN_ORACLES == 10
LEN == 1 + PubkeyBytes + U64Bytes + U64Bytes + 1 + PubkeyBytes * LEN_ORACLES

InvalidAccountData == [result |-> "InvalidAccountData", value |-> <<>>]

\* the bytes of the oracles array, slot after slot
OracleSlots(oracles, slots) ==
  Flatten([i \in 1..slots |-> as_ref(oracles[i])])

\* the fields of a record in the order of mut_array_refs!
RecordBytes(r, slots) ==
  <<IF r.is_initialized THEN 1 ELSE 0>>
  \o as_ref(r.collateral_token_key)
  \o to_le_bytes(r.remaining_dollar_cap)
  \o to_le_bytes(r.withdrawable_fee_amount)
  \o <<r.minimum_required_signature>>
  \o OracleSlots(r.oracles, slots)

\* what a buffer holds after its front was overwritten
Overwrite(dst, front) == front \o Back(dst, Len(front))

\* SynchronizerData::pack_into_slice with a loop that leaves the last oracle
\* slot of the buffer as it was
pack_into_slice_LastSlotKept(r, dst) ==
  IF Len(dst) < LEN THEN CodecPanic
  ELSE CodecOk(Overwrite(dst, RecordBytes(r, MAX_ORACLES - 1)))

\* SynchronizerData::pack_into_slice: array_mut_ref![dst, 0, 370] aborts on a
\* shorter buffer
pack_into_slice(r, dst) ==
  IF Len(dst) < LEN THEN CodecPanic
  ELSE CodecOk(Overwrite(dst, RecordBytes(r, MAX_ORACLES)))

\* SynchronizerData::unpack_from_slice: array_ref![src, 0, 370] aborts on a
\* shorter buffer; the first byte must be 0 or 1
unpack_from_slice(src) ==
  IF Len(src) < LEN THEN CodecPanic
  ELSE IF src[1] \notin {0, 1} THEN InvalidAccountData
  ELSE LET key == 1
           cap == key + PubkeyBytes
           fee == cap + U64Bytes
           min == fee + U64Bytes
           flat == min + 1
       IN CodecOk([ is_initialized |-> src[1] = 1,
                    collateral_token_key |-> Pubkey_new(SubSeq(src, key + 1, key + PubkeyBytes)),
                    remaining_dollar_cap |-> from_le_bytes(SubSeq(src, cap + 1, cap + U64Bytes)),
                    withdrawable_fee_amount |->
                        from_le_bytes(SubSeq(src, fee + 1, fee + U64Bytes)),
                    minimum_required_signature |-> src[min + 1],
                    oracles |-> UnpackedKeys(Back(src, flat), MAX_ORACLES) ])

\* record values: both flags, zero and non-zero keys, u64 fields with one or
\* two non-zero bytes, thresholds up to u8::MAX, empty and full oracle arrays
RecordValues ==
  { [ is_initialized |-> b, collateral_token_key |-> k,
      remaining_dollar_cap |-> a[1], withdrawable_fee_amount |-> a[2],
      minimum_required_signature |-> m, oracles |-> o ] :
      b \in BOOLEAN,
      k \in {ZeroKey, "usdc"},
      a \in { <<0, 0>>, <<50, 3>>, <<ByteModulus + 2, U64Max>> },
      m \in {0, 2, ByteMax},
      o \in { [i \in 1..MAX_ORACLES |-> ZeroKey],
              [i \in 1..MAX_ORACLES |-> IF i <= 2 THEN KeyNames[6 + i] ELSE ZeroKey],
              [i \in 1..MAX_ORACLES |-> IF i = MAX_ORACLES THEN "x" ELSE "o1"] } }

\* account data a record is packed into: zero-filled, holding other bytes,
\* longer than LEN, and one byte short
Buffers ==
  { Repeat(0, LEN), Repeat(ByteMax, LEN), Repeat(1, LEN + 1), Repeat(0, LEN - 1) }

\* account data handed to unpack: packed records with every value of the
\* first byte, and a short buffer
StateInputs ==
  { [op |-> "data", record |-> r, dst |-> <<>>,
     src |-> <<b>> \o Tail(pack_into_slice(r, Repeat(ByteMax, LEN)).value)] :
      r \in RecordValues, b \in 0..ByteMax }
  \cup { [op |-> "data", record |-> r, dst |-> <<>>, src |-> Repeat(2, LEN - 1)] :
          r \in {ZeroRecord} }

StateInit ==
  /\ synchronizer = ZeroRecord
  /\ balance = InitialBalance
  /\ call \in { [op |-> "record", record |-> r, dst |-> d, src |-> <<>>] :
                  r \in RecordValues, d \in Buffers }
              \cup StateInputs
  /\ result = "none"
  /\ locals = NoLocals
  /\ ledger = <<>>
  /\ changed = FALSE
  /\ retired = {}
  /\ ncalls = 0

\* SynchronizerData::pack(record, &mut data)
PackRecord ==
  /\ call.op = "record"
  /\ call' = [call EXCEPT !.op = "pack_into_slice"]
  /\ result' = pack_into_slice(call.record, call.dst)
  /\ UNCHANGED <<synchronizer, balance, locals, ledger, changed, retired, ncalls>>

\* SynchronizerData::unpack_from_slice of the data pack has written
UnpackPackedRecord ==
  /\ call.op = "pack_into_slice"
  /\ result.result = "Ok"
  /\ call' = [call EXCEPT !.op = "unpack_packed_record", !.src = result.value]
  /\ result' = unpack_from_slice(result.value)
  /\ UNCHANGED <<synchronizer, balance, locals, ledger, changed, retired, ncalls>>

\* SynchronizerData::unpack_from_slice of account data
UnpackRecord ==
  /\ call.op = "data"
  /\ call' = [call EXCEPT !.op = "unpack_from_slice"]
  /\ result' = unpack_from_slice(call.src)
  /\ UNCHANGED <<synchronizer, balance, locals, ledger, changed, retired, ncalls>>

StateNext ==
  \/ PackRecord
  \/ UnpackPackedRecord
  \/ UnpackRecord

StateSpec == StateInit /\ [][StateNext]_vars



\* ------------------------------------------------------------------ claims
IsTrade(c) == c.op \in {"BuyFor", "SellFor"}

\* the invocation passed every check up to the computation of the amounts
\* (its price and amounts were logged)
Priced == result = "Ok" \/ ledger # <<>> \/ locals # NoLocals

SetMaximum(S) == CHOOSE m \in S : \A x \in S : x <= m
SetMinimum(S) == CHOOSE m \in S : \A x \in S : m <= x
FirstPrices(prices, k) == { prices[i] : i \in 1..k }

\* C1: an invocation that does not return Ok leaves the persisted record as
\* it was, and the record changes only in an invocation that returns Ok after
\* every ledger instruction it issued has succeeded.
C1_AllOrNothing ==
  [][ /\ (result' # "Ok" => synchronizer' = synchronizer)
      /\ (synchronizer' # synchronizer =>
            /\ result' = "Ok"
            /\ \A i \in DOMAIN ledger' : ledger'[i].ok) ]_vars

\* a buy whose collateral transfer went through and whose mint failed
C1_Witness ==
  /\ call.op = "BuyFor"
  /\ result = "LedgerError"
  /\ Len(ledger) = 2
  /\ ledger[1].ok
  /\ synchronizer.is_initialized

\* C2: with threshold k >= 1 and at least k prices, the price of a BuyFor is
\* the maximum and the price of a SellFor the minimum of the first k prices;
\* later entries do not influence it.
C2_PriceSelection ==
  [][ ( /\ IsTrade(call')
        /\ Priced'
        /\ synchronizer.minimum_required_signature >= 1 )
      => LET k == synchronizer.minimum_required_signature
             first == FirstPrices(call'.prices, k)
         IN /\ Len(call'.prices) >= k
            /\ call'.op = "BuyFor" => locals'.price = SetMaximum(first)
            /\ call'.op = "SellFor" => locals'.price = SetMinimum(first) ]_vars

\* prices [21, 12, 30] under threshold 3: a buy executed at 30
C2_Witness ==
  /\ call.op = "BuyFor"
  /\ result = "Ok"
  /\ call.prices = <<21, 12, 30>>
  /\ synchronizer.minimum_required_signature = 3
  /\ locals.price = 30

\* C3 (as claimed): a BuyFor or SellFor that passed the authorization and
\* quorum-count checks fails with BadOracle whenever some presented oracle
\* account, at any position, is not in the record's oracles or has not signed.
\* Stated for the invocations whose first presented oracle is a known signer
\* and whose presented keys are all non-zero.
C3_BadOracleAnyPosition ==
  [][ ( /\ IsTrade(call')
        /\ Authorize(synchronizer, call') = ""
        /\ QuorumCount(synchronizer, call') = ""
        /\ synchronizer.minimum_required_signature >= 1
        /\ \A i \in DOMAIN call'.oracles : call'.oracles[i].key # ZeroKey
        /\ \E i \in DOMAIN call'.oracles : ~KnownSigner(synchronizer, call'.oracles[i]) )
      => result' = "BadOracle" ]_vars

\* C4 (as claimed): a successful BuyFor or SellFor was presented at least k
\* distinct oracle identities that are in the record's oracle set and signed.
\* Stated for the invocations whose presented keys are all non-zero.
C4_QuorumOfDistinctOracles ==
  [][ ( /\ IsTrade(call')
        /\ result' = "Ok"
        /\ \A i \in DOMAIN call'.oracles : call'.oracles[i].key # ZeroKey )
      => Cardinality({ call'.oracles[i].key : i \in
                         { j \in DOMAIN call'.oracles :
                             KnownSigner(synchronizer, call'.oracles[j]) } })
           >= synchronizer.minimum_required_signature ]_vars

\* C5: on an initialized record, a BuyFor or SellFor that passed the ownership
\* and signer checks fails with NotEnoughOracles exactly when it presents
\* fewer oracle accounts or fewer prices than the threshold; the threshold is
\* the value the last successful SetMinimumRequiredSignatures supplied.
C5_NotEnoughOracles ==
  [][ /\ ( IsTrade(call') /\ Authorize(synchronizer, call') = "" )
         => ( result' = "NotEnoughOracles"
              <=> \/ Len(call'.oracles) < synchronizer.minimum_required_signature
                  \/ Len(call'.prices) < synchronizer.minimum_required_signature )
      /\ ( call'.op = "SetMinimumRequiredSignatures" /\ result' = "Ok" )
         => synchronizer'.minimum_required_signature = call'.minimum_required_signature
    ]_vars

\* two oracles and two prices presented under a threshold raised to three
C5_Witness ==
  /\ call.op = "BuyFor"
  /\ result = "NotEnoughOracles"
  /\ Len(call.oracles) = 2
  /\ Len(call.prices) = 2
  /\ synchronizer.minimum_required_signature = 3


\* the amounts of the claims: amount * price / scale, then that times the fee
\* rate over the scale, in integers
ClaimedCollateral(c, price) == (c.amount * price) \div Scale
ClaimedFee(c, price) == (ClaimedCollateral(c, price) * c.fee) \div Scale

\* C6 (as claimed): after a successful BuyFor at price p, collateral_amount is
\* amount*p/scale, fee_amount is collateral_amount*fee/scale, the cap is the
\* old cap minus collateral_amount*multiplier, the fee pool the old one plus
\* fee_amount, and no other field changed.  Stated for the trades in which
\* none of these quantities leaves the u64 range.
C6_BuyBookkeeping ==
  [][ LET ca == ClaimedCollateral(call', locals'.price)
          fa == ClaimedFee(call', locals'.price)
      IN ( /\ call'.op = "BuyFor"
           /\ result' = "Ok"
           /\ ca + fa <= U64Max
           /\ ca * call'.multiplier <= synchronizer.remaining_dollar_cap
           /\ synchronizer.withdrawable_fee_amount + fa <= U64Max )
         => /\ locals'.collateral_amount = ca
            /\ locals'.fee_amount = fa
            /\ synchronizer' =
                 [synchronizer EXCEPT
                    !.remaining_dollar_cap = @ - ca * call'.multiplier,
                    !.withdrawable_fee_amount = @ + fa] ]_vars

C8_SellBookkeeping ==
  [][ LET ca == ClaimedCollateral(call', locals'.price)
          fa == ClaimedFee(call', locals'.price)
      IN ( /\ call'.op = "SellFor"
           /\ result' = "Ok"
           /\ fa <= ca
           /\ synchronizer.remaining_dollar_cap + ca * call'.multiplier <= U64Max
           /\ synchronizer.withdrawable_fee_amount + fa <= U64Max )
         => /\ locals'.collateral_amount = ca
            /\ locals'.fee_amount = fa
            /\ synchronizer' =
                 [synchronizer EXCEPT
                    !.remaining_dollar_cap = @ + ca * call'.multiplier,
                    !.withdrawable_fee_amount = @ + fa] ]_vars

C10_NoUnderflow ==
  [][ ( /\ call'.op = "BuyFor"
        /\ Len(ledger') = 2
        /\ ledger'[2].ok
        /\ locals'.collateral_amount * call'.multiplier
             > synchronizer.remaining_dollar_cap )
      => /\ result' = "InsufficientFunds"
         /\ synchronizer' = synchronizer ]_vars


\* the trade passed the authorization, quorum and asset-binding checks
BuyChecksPass(rec, c) ==
  /\ Authorize(rec, c) = ""
  /\ QuorumCount(rec, c) = ""
  /\ BuyPriceLoop(rec, c.oracles, c.prices, 0, c.prices[1]).err = ""
  /\ BuyBindings(rec, c) = ""

SellChecksPass(rec, c) ==
  /\ Authorize(rec, c) = ""
  /\ QuorumCount(rec, c) = ""
  /\ SellPriceLoop(rec, c.oracles, c.prices, 0, c.prices[1]).err = ""
  /\ SellBindings(rec, c) = ""

\* C11 (as claimed): a BuyFor that passed the authorization, quorum and
\* asset-binding checks fails with InsufficientFunds if and only if the user's
\* collateral balance is strictly less than collateral_amount + fee_amount, and
\* on that failure the balances and the record are unchanged.
C11_BuyFundsBoundary ==
  [][ ( call'.op = "BuyFor" /\ BuyChecksPass(synchronizer, call') )
      => /\ ( result' = "InsufficientFunds"
               <=> balance[call'.user_coll]
                     < locals'.collateral_amount + locals'.fee_amount )
         /\ ( result' = "InsufficientFunds"
               => balance' = balance /\ synchronizer' = synchronizer ) ]_vars

\* C12: a SellFor that passed the earlier checks fails with InsufficientFunds
\* when the user's synthetic balance is less than amount or the protocol
\* collateral account holds less than collateral_amount - fee_amount; on that
\* failure nothing is burned, no collateral moves and the record is unchanged.
C12_SellFundsBoundary ==
  [][ ( /\ call'.op = "SellFor"
        /\ SellChecksPass(synchronizer, call')
        /\ \/ balance[call'.user_fiat] < call'.amount
           \/ balance[call'.sync_coll]
                < locals'.collateral_amount - locals'.fee_amount )
      => /\ result' = "InsufficientFunds"
         /\ ledger' = <<>>
         /\ balance' = balance
         /\ synchronizer' = synchronizer ]_vars

\* a sell the user could cover, refused because the protocol collateral
\* account holds less than the collateral due
C12_Witness ==
  /\ call.op = "SellFor"
  /\ result = "InsufficientFunds"
  /\ balance[call.user_fiat] >= call.amount
  /\ locals.collateral_amount > locals.fee_amount
  /\ balance[call.sync_coll] < locals.collateral_amount - locals.fee_amount

\* C13: is_initialized becomes true only in a successful InitializeAccount
\* and never becomes false again; on an uninitialized record no other handler
\* succeeds or changes the record.
C13_InitializationLifecycle ==
  [][ /\ ( ~synchronizer.is_initialized /\ synchronizer'.is_initialized )
         => ( call'.op = "InitializeAccount" /\ result' = "Ok" )
      /\ synchronizer.is_initialized => synchronizer'.is_initialized
      /\ ( ~synchronizer.is_initialized /\ call'.op # "InitializeAccount" )
         => ( result' # "Ok" /\ synchronizer' = synchronizer ) ]_vars

\* a well-formed SetCollateralToken refused on the uninitialized record
C13_Witness ==
  /\ call.op = "SetCollateralToken"
  /\ call.owner_ok /\ call.signer
  /\ result = "NotInitialized"
  /\ ~synchronizer.is_initialized

\* C14 (as claimed): InitializeAccount on an initialized record returns
\* AlreadyInitialized for every payload and leaves the record unchanged.
\* Stated for the invocations that pass the ownership and signer checks.
C14_DoubleInitRejected ==
  [][ ( /\ call'.op = "InitializeAccount"
        /\ AdminGate(call') = ""
        /\ synchronizer.is_initialized )
      => /\ result' = "AlreadyInitialized"
         /\ synchronizer' = synchronizer ]_vars

\* C15: after a successful InitializeAccount on an uninitialized record the
\* record has is_initialized = true, the four scalar fields of the payload,
\* and an oracles array holding the supplied identities in order in its first
\* slots and zero in the remaining ones.
C15_InitializeSuccess ==
  [][ ( /\ call'.op = "InitializeAccount"
        /\ result' = "Ok"
        /\ ~synchronizer.is_initialized )
      => /\ synchronizer'.is_initialized
         /\ synchronizer'.collateral_token_key = call'.collateral_token_key
         /\ synchronizer'.remaining_dollar_cap = call'.remaining_dollar_cap
         /\ synchronizer'.withdrawable_fee_amount = call'.withdrawable_fee_amount
         /\ synchronizer'.minimum_required_signature = call'.minimum_required_signature
         /\ Len(call'.oracles) <= MAX_ORACLES
         /\ \A i \in 1..MAX_ORACLES :
              synchronizer'.oracles[i] =
                IF i <= Len(call'.oracles) THEN call'.oracles[i] ELSE ZeroKey ]_vars

\* an initialization with a non-zero fee pool, a threshold and a partial oracle list
C15_Witness ==
  /\ call.op = "InitializeAccount"
  /\ result = "Ok"
  /\ call.withdrawable_fee_amount > 0
  /\ call.minimum_required_signature > 0
  /\ Len(call.oracles) \in 1..(MAX_ORACLES - 1)
  /\ synchronizer.oracles[MAX_ORACLES] = ZeroKey

C17_InitializeBoundChecks ==
  [][ ( /\ call'.op = "InitializeAccount"
        /\ AdminGate(call') = ""
        /\ ~synchronizer.is_initialized )
      => LET long == Len(call'.oracles) > MAX_ORACLES
             big == call'.minimum_required_signature > MAX_SIGNERS
             poor == ~call'.rent_exempt
         IN /\ long => result' = "MaxOraclesExceed"
            /\ (~long /\ big) => result' = "MaxSignersExceed"
            /\ (~long /\ ~big /\ poor) => result' = "NotRentExempt"
            /\ (long \/ big \/ poor)
                 => ( synchronizer' = synchronizer /\ ~synchronizer'.is_initialized )
    ]_vars

\* an initialization within both bounds refused for lack of rent exemption
C17_Witness ==
  /\ call.op = "InitializeAccount"
  /\ result = "NotRentExempt"
  /\ ~call.rent_exempt
  /\ ~synchronizer.is_initialized

\* C18 (as claimed): a SetOracles that passed the ownership and signer checks
\* fails with MaxOraclesExceed and changes nothing when it carries more than
\* MAX_ORACLES entries; on an initialized record with at most MAX_ORACLES
\* entries it succeeds and leaves exactly the supplied list followed by zero
\* slots; and a later successful BuyFor or SellFor counted, among the first k
\* oracle accounts presented, no identity that an earlier SetOracles dropped
\* (stated for the trades whose presented keys are all non-zero).
C18_SetOraclesOverwrite ==
  [][ /\ ( /\ call'.op = "SetOracles"
           /\ AdminGate(call') = ""
           /\ Len(call'.oracles) > MAX_ORACLES )
         => ( result' = "MaxOraclesExceed" /\ synchronizer' = synchronizer )
      /\ ( /\ call'.op = "SetOracles"
           /\ AdminGate(call') = ""
           /\ synchronizer.is_initialized
           /\ Len(call'.oracles) <= MAX_ORACLES )
         => /\ result' = "Ok"
            /\ synchronizer' =
                 [synchronizer EXCEPT !.oracles =
                    [i \in 1..MAX_ORACLES |->
                       IF i <= Len(call'.oracles) THEN call'.oracles[i] ELSE ZeroKey]]
      /\ ( /\ IsTrade(call')
           /\ result' = "Ok"
           /\ \A i \in DOMAIN call'.oracles : call'.oracles[i].key # ZeroKey )
         => \A i \in 1..synchronizer.minimum_required_signature :
              call'.oracles[i].key \notin retired
    ]_vars

\* the balances after amount moved from one account to another
Moved(bal, from, to, amount) ==
  [bal EXCEPT ![from] = @ - amount, ![to] = @ + amount]

\* C19: on an initialized record, a WithdrawFee that passed the ownership and
\* signer checks fails with InsufficientFunds when withdrawable_fee_amount is
\* less than amount, transferring nothing and leaving the record unchanged;
\* otherwise, when the ledger transfer succeeds, exactly amount moves from the
\* protocol collateral account to the recipient, withdrawable_fee_amount
\* decreases by amount and no other field changes.
C19_WithdrawFee ==
  [][ ( /\ call'.op = "WithdrawFee"
        /\ AdminGate(call') = ""
        /\ synchronizer.is_initialized )
      => /\ synchronizer.withdrawable_fee_amount < call'.amount
            => /\ result' = "InsufficientFunds"
               /\ ledger' = <<>>
               /\ balance' = balance
               /\ synchronizer' = synchronizer
         /\ ( /\ synchronizer.withdrawable_fee_amount >= call'.amount
              /\ ledger' # <<>>
              /\ ledger'[1].ok )
            => /\ result' = "Ok"
               /\ balance' = Moved(balance, call'.sync_coll, call'.recipient,
                                   call'.amount)
               /\ synchronizer' =
                    [synchronizer EXCEPT !.withdrawable_fee_amount = @ - call'.amount]
    ]_vars

\* a fee withdrawal that moved tokens out of a non-empty fee pool
C19_Witness ==
  /\ call.op = "WithdrawFee"
  /\ result = "Ok"
  /\ call.amount > 0
  /\ call.sync_coll # call.recipient
  /\ balance[call.recipient] >= call.amount

\* C20: a WithdrawCollateral that passed the ownership, signer and
\* initialization checks fails with InsufficientFunds when the protocol
\* collateral account holds less than amount; when it succeeds exactly amount
\* moves from the protocol collateral account to the recipient and the record
\* is unchanged.
C20_WithdrawCollateralFrame ==
  [][ /\ ( /\ call'.op = "WithdrawCollateral"
           /\ AdminGate(call') = ""
           /\ synchronizer.is_initialized
           /\ balance[call'.sync_coll] < call'.amount )
         => /\ result' = "InsufficientFunds"
            /\ balance' = balance
            /\ synchronizer' = synchronizer
      /\ ( call'.op = "WithdrawCollateral" /\ result' = "Ok" )
         => /\ balance' = Moved(balance, call'.sync_coll, call'.recipient,
                                call'.amount)
            /\ synchronizer' = synchronizer
    ]_vars

\* a collateral withdrawal that moved tokens while the fee pool was non-empty
C20_Witness ==
  /\ call.op = "WithdrawCollateral"
  /\ result = "Ok"
  /\ call.amount > 0
  /\ call.sync_coll # call.recipient
  /\ synchronizer.withdrawable_fee_amount > 0

\* C21: a successful SetMinimumRequiredSignatures, SetCollateralToken or
\* SetRemainingDollarCap sets its own field to the supplied value and leaves
\* every other field of the record and every ledger balance unchanged.
C21_SettersChangeOneField ==
  [][ /\ ( call'.op = "SetMinimumRequiredSignatures" /\ result' = "Ok" )
         => /\ synchronizer' =
                 [synchronizer EXCEPT
                    !.minimum_required_signature = call'.minimum_required_signature]
            /\ balance' = balance
      /\ ( call'.op = "SetCollateralToken" /\ result' = "Ok" )
         => /\ synchronizer' =
                 [synchronizer EXCEPT
                    !.collateral_token_key = call'.collateral_token_key]
            /\ balance' = balance
      /\ ( call'.op = "SetRemainingDollarCap" /\ result' = "Ok" )
         => /\ synchronizer' =
                 [synchronizer EXCEPT
                    !.remaining_dollar_cap = call'.remaining_dollar_cap]
            /\ balance' = balance
    ]_vars

\* the cap set on a record whose fee pool is not empty
C21_Witness ==
  /\ call.op = "SetRemainingDollarCap"
  /\ result = "Ok"
  /\ synchronizer.remaining_dollar_cap = call.remaining_dollar_cap
  /\ synchronizer.withdrawable_fee_amount > 0

\* the protocol authority signed the invocation
AuthoritySigned(c) == IF IsTrade(c) THEN c.sync_signer ELSE c.signer

\* C22: whenever the account presented as the record is not owned by the
\* program, every handler fails with AccessDenied, whatever the signer flags,
\* the record's contents and the payload, and changes neither the record nor
\* the ledger.
C22_OwnershipCheck ==
  [][ ~call'.owner_ok
      => /\ result' = "AccessDenied"
         /\ ledger' = <<>>
         /\ balance' = balance
         /\ synchronizer' = synchronizer ]_vars

\* an unsigned withdrawal on an account of another owner, on an initialized record
C22_Witness ==
  /\ call.op = "WithdrawCollateral"
  /\ ~call.owner_ok
  /\ ~call.signer
  /\ result = "AccessDenied"
  /\ synchronizer.is_initialized

\* C23: on a program-owned record account every handler fails with
\* InvalidSigner when the protocol authority has not signed, and BuyFor and
\* SellFor also when the user authority has not signed; an invocation the
\* protocol authority did not sign changes no record and issues no ledger
\* instruction.
C23_SignerChecks ==
  [][ /\ ( call'.owner_ok /\ ~AuthoritySigned(call') )
         => result' = "InvalidSigner"
      /\ ( IsTrade(call') /\ call'.owner_ok /\ ~call'.user_signer )
         => result' = "InvalidSigner"
      /\ ~AuthoritySigned(call')
         => /\ ledger' = <<>>
            /\ balance' = balance
            /\ synchronizer' = synchronizer
    ]_vars

\* a sell signed by the protocol authority and not by the user
C23_Witness ==
  /\ call.op = "SellFor"
  /\ call.owner_ok
  /\ call.sync_signer
  /\ ~call.user_signer
  /\ result = "InvalidSigner"
  /\ synchronizer.is_initialized

\* the trade passed the authorization and quorum checks and the oracle loop
QuorumPass(rec, c) ==
  /\ Authorize(rec, c) = ""
  /\ QuorumCount(rec, c) = ""
  /\ BuyPriceLoop(rec, c.oracles, c.prices, 0, c.prices[1]).err = ""

\* a presented collateral account references another mint than the record's
CollateralMintBad(rec, c) ==
  \/ TokenAccount[c.sync_coll].mint # rec.collateral_token_key
  \/ TokenAccount[c.user_coll].mint # rec.collateral_token_key

\* a presented collateral account is not owned by the party it stands for
CollateralOwnerBad(c) ==
  \/ TokenAccount[c.sync_coll].owner # SyncKey
  \/ TokenAccount[c.user_coll].owner # UserKey

\* C24: a BuyFor or SellFor that passed the authorization and quorum checks
\* fails with BadCollateralMint when a presented collateral account references
\* a mint other than the record's collateral_token_key (the owners being
\* right), with an owner mismatch when a collateral account has the wrong
\* owner (the mints being right) or when the user's synthetic account is not
\* the user's (the collateral accounts being right and the synthetic mint
\* acceptable); in all these cases nothing changes.  With the key changed by
\* SetCollateralToken, accounts of the old collateral are refused.
C24_CollateralBinding ==
  [][ ( IsTrade(call') /\ QuorumPass(synchronizer, call') )
      => LET mint == CollateralMintBad(synchronizer, call')
             owner == CollateralOwnerBad(call')
             fiat == TokenAccount[call'.user_fiat].owner # UserKey
             synthetic == /\ Mint[call'.fiat_mint].decimals = DEFAULT_DECIMALS
                          /\ Mint[call'.fiat_mint].mint_authority = SyncKey
         IN /\ (mint /\ ~owner) => result' = "BadCollateralMint"
            /\ (owner /\ ~mint) => result' = "OwnerMismatch"
            /\ (fiat /\ ~mint /\ ~owner /\ synthetic) => result' = "OwnerMismatch"
            /\ (mint \/ owner \/ fiat)
                 => /\ result' \in {"BadCollateralMint", "OwnerMismatch", "BadDecimals",
                                    "BadMintAuthority"}
                    /\ ledger' = <<>>
                    /\ balance' = balance
                    /\ synchronizer' = synchronizer
    ]_vars

\* a trade with the accounts of the original collateral, refused after
\* SetCollateralToken moved the record to another collateral
C24_Witness ==
  /\ IsTrade(call)
  /\ result = "BadCollateralMint"
  /\ synchronizer.collateral_token_key = "usdt"
  /\ TokenAccount[call.sync_coll].mint = "usdc"
  /\ TokenAccount[call.user_coll].mint = "usdc"
  /\ ~CollateralOwnerBad(call)

\* C25 (as claimed): a BuyFor or SellFor fails with BadDecimals when the
\* synthetic mint's decimals differ from DEFAULT_DECIMALS and with
\* BadMintAuthority when (the decimals being right) the mint's authority is
\* absent or is not the protocol authority, and issues no ledger instruction
\* in those cases.  Stated for the trades that passed the authorization,
\* quorum and collateral checks and whose synthetic account is the user's and
\* holds the presented mint.
C25_SyntheticAssetChecks ==
  [][ ( /\ IsTrade(call')
        /\ QuorumPass(synchronizer, call')
        /\ ~CollateralMintBad(synchronizer, call')
        /\ ~CollateralOwnerBad(call')
        /\ TokenAccount[call'.user_fiat].owner = UserKey
        /\ TokenAccount[call'.user_fiat].mint = call'.fiat_mint )
      => LET decimals == Mint[call'.fiat_mint].decimals # DEFAULT_DECIMALS
             authority == Mint[call'.fiat_mint].mint_authority # SyncKey
         IN /\ decimals => result' = "BadDecimals"
            /\ (authority /\ ~decimals) => result' = "BadMintAuthority"
            /\ (decimals \/ authority) => ledger' = <<>>
    ]_vars

C26_ProgramIdentityGate ==
  [][ ( /\ call'.op = "process_instruction"
        /\ call'.program_id # id )
      => /\ result' = "IncorrectProgramId"
         /\ locals' = NoLocals
         /\ ledger' = <<>>
         /\ synchronizer' = synchronizer
         /\ balance' = balance ]_vars

\* a foreign identity with bytes the decoder aborts on, on an initialized record
C26_Witness ==
  /\ call.op = "process_instruction"
  /\ call.program_id = OtherKey
  /\ call.instruction_data = <<6>>
  /\ result = "IncorrectProgramId"
  /\ synchronizer.is_initialized

\* C28 (as claimed): pack returns bytes for every instruction of the nine
\* variants, whatever the length of its price list or oracle list, and unpack
\* of these bytes returns the instruction.
C28_RoundTrip ==
  /\ call.op = "pack" => result.result = "Ok"
  /\ call.op = "unpack_packed" => result = CodecOk(call.instruction)

\* C28 (amended): for every instruction whose price list or oracle list has at
\* most ByteMax elements (255 in the code) pack returns bytes and unpack of
\* these bytes returns the instruction; with a longer list pack aborts.
C28_RoundTripWithinCount ==
  /\ call.op = "pack" =>
        IF Len(ListOf(call.instruction)) <= ByteMax
          THEN result.result = "Ok"
          ELSE result = CodecPanic
  /\ call.op = "unpack_packed" => result = CodecOk(call.instruction)

\* an InitializeAccount with the longest oracle list the count byte holds
\* came back from unpack(pack(..))
C28_Witness ==
  /\ call.op = "unpack_packed"
  /\ call.instruction.op = "InitializeAccount"
  /\ Len(call.instruction.oracles) = ByteMax
  /\ call.instruction.remaining_dollar_cap = ByteModulus + 2
  /\ result.result = "Ok"
  /\ result.value = call.instruction

\* C29 (as claimed): unpack returns InvalidInstruction, and neither aborts nor
\* returns an instruction, for every input that keeps the tag of an encoded
\* instruction and cuts its payload short: inside a fixed-width field, or
\* inside the elements that the count byte of a list declares.
C29_TruncatedInput ==
  ( /\ call.op = "unpack"
    /\ call.instruction.op # "none"
    /\ Len(call.input) >= 1
    /\ Len(call.input) < Len(pack(call.instruction).value) )
  => result = InvalidInstruction

\* C30: process_instruction with the deployed identity and instruction bytes
\* that are empty or start with a byte outside 0..8 returns
\* InvalidInstruction (what unpack returns for them), runs no handler and
\* leaves the record and the ledger as they were.
C30_EmptyOrUnknownTag ==
  [][ ( /\ call'.op = "process_instruction"
        /\ call'.program_id = id
        /\ \/ call'.instruction_data = <<>>
           \/ Head(call'.instruction_data) \notin 0..8 )
      => /\ result' = "InvalidInstruction"
         /\ locals' = NoLocals
         /\ ledger' = <<>>
         /\ synchronizer' = synchronizer
         /\ balance' = balance ]_vars

\* bytes with the tag 9 were refused on an initialized record
C30_Witness ==
  /\ call.op = "process_instruction"
  /\ call.program_id = id
  /\ call.instruction_data = <<9>>
  /\ result = "InvalidInstruction"
  /\ synchronizer.is_initialized

C32_PayBeforeReceive ==
  [][ IsTrade(call')
      => LET buy == call'.op = "BuyFor"
             led == ledger'
         IN /\ Len(led) <= 2
            /\ Len(led) >= 1
                 => /\ led[1].op = IF buy THEN "transfer" ELSE "burn"
                    /\ led[1].from = IF buy THEN call'.user_coll ELSE call'.user_fiat
                    /\ buy => led[1].to = call'.sync_coll
            /\ Len(led) = 2
                 => /\ led[1].ok
                    /\ led[2].op = IF buy THEN "mint_to" ELSE "transfer"
            /\ synchronizer' # synchronizer
                 => ( Len(led) = 2 /\ led[1].ok /\ led[2].ok )
            /\ ( buy /\ balance'[call'.user_fiat] > balance[call'.user_fiat] )
                 => /\ led[1].ok
                    /\ balance'[call'.sync_coll] = balance[call'.sync_coll] + led[1].amount
            /\ ( ~buy /\ balance'[call'.user_coll] > balance[call'.user_coll] )
                 => /\ led[1].ok
                    /\ balance'[call'.user_fiat] = balance[call'.user_fiat] - call'.amount
    ]_vars

\* a buy whose collateral transfer was refused: nothing else was issued and
\* nothing was minted
C32_Witness ==
  /\ call.op = "BuyFor"
  /\ result = "LedgerError"
  /\ Len(ledger) = 1
  /\ ledger[1].op = "transfer"
  /\ ~ledger[1].ok
  /\ balance = InitialBalance

\* C33 (as claimed): a successful BuyFor with collateral_amount > 0 leaves
\* remaining_dollar_cap strictly lower and a successful SellFor with
\* collateral_amount > 0 strictly higher, for every multiplier; no invocation
\* other than these, InitializeAccount and SetRemainingDollarCap changes the
\* cap.  Stated for the trades whose cap arithmetic stays within u64.
C33_CapDirection ==
  [][ LET cap == synchronizer.remaining_dollar_cap
          moved == CapDelta(call'.amount, locals'.price, call'.multiplier)
      IN /\ ( /\ call'.op = "BuyFor" /\ result' = "Ok"
              /\ locals'.collateral_amount > 0
              /\ moved <= cap )
            => synchronizer'.remaining_dollar_cap < cap
         /\ ( /\ call'.op = "SellFor" /\ result' = "Ok"
              /\ locals'.collateral_amount > 0
              /\ cap + moved <= U64Max )
            => synchronizer'.remaining_dollar_cap > cap
         /\ synchronizer'.remaining_dollar_cap # cap
            => /\ result' = "Ok"
               /\ call'.op \in {"BuyFor", "SellFor", "InitializeAccount",
                                 "SetRemainingDollarCap"}
    ]_vars

\* C34 (as claimed): on an initialized record withdrawable_fee_amount changes
\* only through a successful BuyFor or SellFor, which adds the trade's
\* fee_amount and never decreases it, and a successful WithdrawFee, which
\* subtracts exactly the withdrawn amount; the other commands and every failed
\* invocation leave it unchanged.
C34_FeePoolEvolution ==
  [][ LET pool == synchronizer.withdrawable_fee_amount
          after == synchronizer'.withdrawable_fee_amount
      IN synchronizer.is_initialized
           => /\ ( IsTrade(call') /\ result' = "Ok" )
                   => ( after = pool + locals'.fee_amount /\ after >= pool )
              /\ ( call'.op = "WithdrawFee" /\ result' = "Ok" )
                   => after = pool - call'.amount
              /\ ( \/ result' # "Ok"
                   \/ call'.op \in {"SetMinimumRequiredSignatures", "SetCollateralToken",
                                     "SetRemainingDollarCap", "SetOracles",
                                     "WithdrawCollateral"} )
                   => after = pool
    ]_vars

SellOf(c) == [c EXCEPT !.op = "SellFor"]

\* the first k prices of the list are one and the same price
EqualFirstPrices(prices, k) ==
  \A i \in 1..k : \A j \in 1..k : prices[i] = prices[j]

\* C36 (as claimed): on an initialized record, a successful BuyFor followed by
\* a successful SellFor with the same multiplier, amount and fee and a price
\* list whose first k entries are all the same price returns
\* remaining_dollar_cap to its value before the BuyFor and leaves
\* withdrawable_fee_amount higher by exactly twice the trade's fee_amount.
C36_CapRoundTrip ==
  [][ ( /\ call'.op = "BuyFor" /\ result' = "Ok"
        /\ EqualFirstPrices(call'.prices, synchronizer.minimum_required_signature) )
      => LET sold == process_sell_for(synchronizer', balance', SellOf(call'))
         IN sold.result = "Ok"
              => /\ sold.rec.remaining_dollar_cap = synchronizer.remaining_dollar_cap
                 /\ sold.locals.fee_amount = locals'.fee_amount
                 /\ sold.rec.withdrawable_fee_amount
                      = synchronizer.withdrawable_fee_amount + 2 * locals'.fee_amount
    ]_vars

\* the collateral accounts the protocol holds in the record's collateral token
ProtocolCollateral(rec) ==
  { a \in TokenAccounts : /\ TokenAccount[a].owner = SyncKey
                          /\ TokenAccount[a].mint = rec.collateral_token_key }

\* C37 (as claimed): in every state reached from a successful
\* InitializeAccount, withdrawable_fee_amount is at most the balance of the
\* protocol's collateral account.
C37_FeeBacking ==
  synchronizer.is_initialized
    => \A a \in ProtocolCollateral(synchronizer) :
         synchronizer.withdrawable_fee_amount <= balance[a]

\* C38 (as claimed): the all-zero identity that fills the unused slots of the
\* oracles array is never accepted as a known oracle: no BuyFor or SellFor
\* whose oracle loop examined an account of that identity gets past the loop
\* (it computes no price and succeeds not), whether the record was left with
\* unused slots by InitializeAccount or by SetOracles.
C38_ZeroSlotNotOracle ==
  [][ ( /\ IsTrade(call')
        /\ synchronizer.minimum_required_signature >= 1
        /\ Len(call'.oracles) >= 1
        /\ LoopOracle(call'.oracles, 0).key = ZeroKey )
      => ( result' # "Ok" /\ locals' = NoLocals /\ ledger' = <<>> )
    ]_vars

\* C39 (as claimed): whatever threshold the initialized record holds, 0
\* included, a BuyFor or SellFor that passed the ownership, signer and
\* initialization checks with an empty price list returns NotEnoughOracles; and
\* a trade that succeeds took its price from the submitted list and had at
\* least one oracle account validated as a known signer by the loop.
C39_EmptyPriceList ==
  [][ ( IsTrade(call') /\ Authorize(synchronizer, call') = "" )
      => /\ call'.prices = <<>> => result' = "NotEnoughOracles"
         /\ result' = "Ok"
              => /\ \E i \in DOMAIN call'.prices : locals'.price = call'.prices[i]
                 /\ synchronizer.minimum_required_signature >= 1
                 /\ \E i \in DOMAIN call'.oracles :
                      KnownSigner(synchronizer, call'.oracles[i])
    ]_vars

\* C40 (as claimed): a SellFor that passed every check up to the computation
\* of the amounts and whose fee_amount exceeds its collateral_amount is
\* rejected with an error value and issues no ledger instruction: nothing is
\* burned or transferred and the record is unchanged; the payout
\* collateral_amount - fee_amount is never taken modulo 2^64.  Stated for the
\* build without overflow checks, where the subtraction cannot abort.
C40_SellPayoutNoWrap ==
  [][ ( /\ call'.op = "SellFor"
        /\ ~call'.overflow_checks
        /\ SellChecksPass(synchronizer, call')
        /\ locals'.fee_amount > locals'.collateral_amount )
      => /\ result' # "Ok"
         /\ ledger' = <<>>
         /\ balance' = balance
         /\ synchronizer' = synchronizer
    ]_vars

====
